---- MODULE Spec2Model ----
(***************************************************************************)
(* A state-machine model of the capypdf Python binding                     *)
(* (src/python/capypdf.py) driving the document core it wraps.             *)
(*                                                                         *)
(* Two layers are modelled.  The binding layer (classes DrawContextBase,   *)
(* DrawContext, StateContextManager, MarkedContextManager, Generator,      *)
(* Text, Destination, Outline) is translated from the Python source.  The  *)
(* native entry points it calls (capy_dc_cmd_q, capy_generator_write, ...) *)
(* live in the shared library, whose source is not part of src/; they are  *)
(* modelled from the specification and carry the prefix capy_.             *)
(*                                                                         *)
(* Control flow of the calling program is a stack of open with-blocks      *)
(* (frames) plus the exception that is currently propagating, if any.      *)
(***************************************************************************)
EXTENDS Integers, Sequences, FiniteSets, TLC

VARIABLES
    dc,         \* draw contexts: [CtxIds -> [state, generator, ops, q, m]]
    text,       \* the Text object: [state, dc, ops, m]
    gen,        \* the Generator's document: pages, outlines, items, resources, ...
    file,       \* the output artifact at the generator's path (NoFile until written)
    dests,      \* Destination objects: [DestIds -> [live, set, page, view]]
    outl,       \* Outline objects: [OutlIds -> [live, used, dest, parent]]
    frames,     \* stack of open with-blocks, innermost last
    exc,        \* message of the exception raised by the last call, or NoExc
    unwinding,  \* TRUE while that exception is propagating out of with-blocks
    handles,    \* handles returned to the program by registration calls so far
    objs        \* builder objects of the program: [ObjIds -> [live, class, elems]]

vars == <<dc, text, gen, file, dests, outl, frames, exc, unwinding, handles, objs>>

(***************************************************************************)
(* Bounds of the model.                                                    *)
(***************************************************************************)
MaxOps == 4        \* operators emitted in one session, all buffers together
MaxFrames == 3     \* nesting depth of with-blocks
MaxPages == 2      \* pages a document may receive
MaxResources == 2  \* resources of one kind a document may receive
MaxOpen == 2       \* draw contexts alive at the same time
MaxUse == 2        \* resource operators one content stream may receive
MaxUnits == 3      \* units one text sequence may receive
MaxElems == 2      \* elements one mesh shading may receive
MaxFuncs == 3      \* functions a document may receive
MaxItems == 2      \* structure items a document may receive

(***************************************************************************)
(* Identities.                                                             *)
(***************************************************************************)
PageCtx == {"page1", "page2"}
FormCtx == {"form1", "form2"}
PatternCtx == {"pattern1"}
GroupCtx == {"tgroup1"}
CtxIds == PageCtx \cup FormCtx \cup PatternCtx \cup GroupCtx
DestIds == {"d1"}
OutlIds == {"o1", "o2"}
ShadeIds == {"sh4", "sh6"}
FuncObjIds == {"f3a", "f3b"}
ColorIds == {"c1"}
SeqIds == {"ks"}
TransIds == {"tr1", "tr2"}
ObjIds == ShadeIds \cup FuncObjIds \cup ColorIds \cup SeqIds \cup TransIds

KindOf(c) ==
    IF c \in PageCtx THEN "page"
    ELSE IF c \in FormCtx THEN "form"
    ELSE IF c \in PatternCtx THEN "pattern"
    ELSE "tgroup"

ResourceKinds == {"form", "pattern", "tgroup"}

NoExc == "NoExc"
NoFile == [exists |-> FALSE, pages |-> <<>>, outlines |-> <<>>, parents |-> <<>>]
None == "None"

(***************************************************************************)
(* Error codes of the native library and their messages.  The two messages *)
(* the tests pin down are 'Negative line width.' and 'No pages defined.';  *)
(* the others carry the names of the specification's error taxonomy.       *)
(***************************************************************************)
EC_OK == 0
ErrNegativeLineWidth == 1
ErrNoPagesDefined == 2
ErrUnbalancedState == 3
ErrInvalidPageNumber == 4
ErrDocumentConsumed == 5
ErrUnknownParent == 6
ErrUnknownHandle == 7
ErrInvalidArgument == 8

capy_error_message(errorcode) ==
    CASE errorcode = ErrNegativeLineWidth -> "Negative line width."
      [] errorcode = ErrNoPagesDefined -> "No pages defined."
      [] errorcode = ErrUnbalancedState -> "UnbalancedState"
      [] errorcode = ErrInvalidPageNumber -> "InvalidPageNumber"
      [] errorcode = ErrDocumentConsumed -> "DocumentConsumed"
      [] errorcode = ErrUnknownParent -> "UnknownParent"
      [] errorcode = ErrUnknownHandle -> "UnknownHandle"
      [] errorcode = ErrInvalidArgument -> "InvalidArgument"
      [] OTHER -> "Unknown error"

get_error_message(errorcode) == capy_error_message(errorcode)

raise_with_error(errorcode) == get_error_message(errorcode)

check_error_swallow(errorcode) == NoExc

\* The exception a native return code turns into (NoExc: the call returns).
check_error(errorcode) ==
    IF errorcode # EC_OK THEN raise_with_error(errorcode) ELSE NoExc

(***************************************************************************)
(* Native draw-context operators: each takes the context record and        *)
(* returns the error code with the context as the call leaves it.          *)
(***************************************************************************)
FreshDc == [state |-> "none", generator |-> None, ops |-> <<>>, q |-> 0, m |-> 0]

Emit(d, op) == [d EXCEPT !.ops = Append(@, op)]

capy_dc_cmd_q(d) ==
    [ec |-> EC_OK, dc |-> [Emit(d, "q") EXCEPT !.q = @ + 1]]

capy_dc_cmd_Q(d) ==
    IF d.q = 0
    THEN [ec |-> ErrUnbalancedState, dc |-> d]
    ELSE [ec |-> EC_OK, dc |-> [Emit(d, "Q") EXCEPT !.q = @ - 1]]

\* Variant that records the operator before it refuses the width.
capy_dc_cmd_w_recording(d, line_width) ==
    IF line_width < 0
    THEN [ec |-> ErrNegativeLineWidth, dc |-> Emit(d, "w")]
    ELSE [ec |-> EC_OK, dc |-> Emit(d, "w")]

capy_dc_cmd_w(d, line_width) ==
    IF line_width < 0
    THEN [ec |-> ErrNegativeLineWidth, dc |-> d]
    ELSE [ec |-> EC_OK, dc |-> Emit(d, "w")]

capy_dc_cmd_re(d) ==
    [ec |-> EC_OK, dc |-> Emit(d, "re")]

capy_dc_cmd_BMC(d) ==
    [ec |-> EC_OK, dc |-> [Emit(d, "BMC") EXCEPT !.m = @ + 1]]

capy_dc_cmd_BDC_ocg(d) ==
    [ec |-> EC_OK, dc |-> [Emit(d, "BDC") EXCEPT !.m = @ + 1]]

capy_dc_cmd_BDC_builtin(d) ==
    [ec |-> EC_OK, dc |-> [Emit(d, "BDC") EXCEPT !.m = @ + 1]]

capy_dc_cmd_EMC(d) ==
    IF d.m = 0
    THEN [ec |-> ErrUnbalancedState, dc |-> d]
    ELSE [ec |-> EC_OK, dc |-> [Emit(d, "EMC") EXCEPT !.m = @ - 1]]

(***************************************************************************)
(* Native text-object operators (the record is the Text object's).         *)
(***************************************************************************)
\* shown: the units each TJ of the text object shows, in call order.
FreshText == [state |-> "none", dc |-> None, ops |-> <<>>, m |-> 0, shown |-> <<>>]

capy_text_cmd_Td(t) ==
    [ec |-> EC_OK, text |-> [t EXCEPT !.ops = Append(@, "Td")]]

capy_text_cmd_BDC_builtin(t) ==
    [ec |-> EC_OK, text |-> [t EXCEPT !.ops = Append(@, "BDC"), !.m = @ + 1]]

capy_text_cmd_EMC(t) ==
    IF t.m = 0
    THEN [ec |-> ErrUnbalancedState, text |-> t]
    ELSE [ec |-> EC_OK, text |-> [t EXCEPT !.ops = Append(@, "EMC"), !.m = @ - 1]]

\* Inlines the text object into the buffer as one group, BT ... ET.
capy_dc_render_text_obj(d, t) ==
    IF t.m # 0
    THEN [ec |-> ErrUnbalancedState, dc |-> d, text |-> t]
    ELSE [ec |-> EC_OK,
          dc |-> [d EXCEPT !.ops = @ \o <<"BT">> \o t.ops \o <<"ET">>],
          text |-> [t EXCEPT !.state = "rendered", !.ops = <<>>]]

(***************************************************************************)
(* Native text sequences: an ordered list of showable units.               *)
(***************************************************************************)
Codepoint(cp) == [kind |-> "codepoint", v |-> cp]
Kerning(k) == [kind |-> "kerning", v |-> k]

capy_text_sequence_new ==
    [ec |-> EC_OK,
     obj |-> [live |-> TRUE, class |-> "TextSequence", elems |-> <<>>, bounds |-> 0]]

capy_text_sequence_append_codepoint(seq, codepoint) ==
    [ec |-> EC_OK, obj |-> [seq EXCEPT !.elems = Append(@, Codepoint(codepoint))]]

capy_text_sequence_append_kerning(seq, kern) ==
    [ec |-> EC_OK, obj |-> [seq EXCEPT !.elems = Append(@, Kerning(kern))]]

\* The operator takes the units the sequence holds when it is called.
capy_text_cmd_TJ(t, seq) ==
    [ec |-> EC_OK,
     text |-> [t EXCEPT !.ops = Append(@, "TJ"), !.shown = Append(@, seq.elems)]]

(***************************************************************************)
(* Native page transitions.  The fields S, D and B of a transition are     *)
(* elements 1, 2 and 3 of the object; a field is unset until its setter    *)
(* is called.                                                              *)
(***************************************************************************)
Unset == [set |-> FALSE, v |-> 0]
Value(v) == [set |-> TRUE, v |-> v]

capy_transition_new ==
    [ec |-> EC_OK,
     obj |-> [live |-> TRUE, class |-> "Transition",
              elems |-> <<Unset, Unset, Unset>>, bounds |-> 0]]

capy_transition_set_S(tr, type) ==
    [ec |-> EC_OK, obj |-> [tr EXCEPT !.elems[1] = Value(type)]]

capy_transition_set_D(tr, duration) ==
    [ec |-> EC_OK, obj |-> [tr EXCEPT !.elems[2] = Value(duration)]]

(***************************************************************************)
(* Native generator operators.                                             *)
(***************************************************************************)
\* Handles are ctypes structures with the single field id; the class of
\* the structure is the kind of the handle.
Handle(kind, id) == [kind |-> kind, id |-> id]

NoHandle == Handle("None", 0)

\* Kinds of resources of which the model keeps the number registered.
CountedKinds == {"ImageId", "ShadingId", "GraphicsStateId"}

FreshGen ==
    [pages |-> <<>>, consumed |-> FALSE, outlines |-> <<>>, fonts |-> 0,
     items |-> <<>>,
     made |-> [k \in CountedKinds |-> 0],
     funcs |-> <<>>,
     res |-> [k \in ResourceKinds |-> <<>>]]

Registered(d) == [d EXCEPT !.state = "added", !.ops = <<>>]

\* A buffer is convertible to a resource only with both stacks empty.
Balanced(d) == d.q = 0 /\ d.m = 0

\* Variant that puts the new page in front of the pages added before.
capy_generator_add_page_front(g, d) ==
    IF g.consumed
    THEN [ec |-> ErrDocumentConsumed, gen |-> g, dc |-> d]
    ELSE IF ~Balanced(d)
    THEN [ec |-> ErrUnbalancedState, gen |-> g, dc |-> d]
    ELSE [ec |-> EC_OK,
          gen |-> [g EXCEPT !.pages = <<d.ops>> \o @],
          dc |-> Registered(d)]

capy_generator_add_page(g, d) ==
    IF g.consumed
    THEN [ec |-> ErrDocumentConsumed, gen |-> g, dc |-> d]
    ELSE IF ~Balanced(d)
    THEN [ec |-> ErrUnbalancedState, gen |-> g, dc |-> d]
    ELSE [ec |-> EC_OK,
          gen |-> [g EXCEPT !.pages = Append(@, d.ops)],
          dc |-> Registered(d)]

\* add_form_xobject, add_color_pattern and add_transparency_group: the
\* buffer becomes a resource of its kind; the handle is its index.
capy_generator_add_resource(g, d, kind) ==
    IF g.consumed
    THEN [ec |-> ErrDocumentConsumed, gen |-> g, dc |-> d, id |-> 0]
    ELSE IF ~Balanced(d)
    THEN [ec |-> ErrUnbalancedState, gen |-> g, dc |-> d, id |-> 0]
    ELSE [ec |-> EC_OK,
          gen |-> [g EXCEPT !.res[kind] = Append(@, d.ops)],
          dc |-> Registered(d),
          id |-> Len(g.res[kind])]

capy_generator_load_font(g) ==
    IF g.consumed
    THEN [ec |-> ErrDocumentConsumed, gen |-> g, id |-> 0]
    ELSE [ec |-> EC_OK, gen |-> [g EXCEPT !.fonts = @ + 1], id |-> g.fonts]

\* Mesh shadings under construction: the elements added so far.  The
\* native calls receive the address of the first coordinate and of the
\* first color only, and read as many as the element has.
FreshObj == [live |-> FALSE, class |-> "None", elems |-> <<>>, bounds |-> 0]

NewObj(class) == [FreshObj EXCEPT !.live = TRUE, !.class = class]

AddElement(sh, elem) == [ec |-> EC_OK, obj |-> [sh EXCEPT !.elems = Append(@, elem)]]

capy_type4_shading_add_triangle(sh) == AddElement(sh, "triangle")

capy_type6_shading_add_patch(sh) == AddElement(sh, "patch")

capy_type6_shading_extend(sh, flag) == AddElement(sh, "extension")

\* Functions.  A stitching function is made of the ids of its sub-functions
\* and of the bounds between their sub-domains: one bound fewer than
\* sub-functions.  The two lists are given by their lengths.  A registered
\* function is stored as its number of sub-functions and of bounds (none
\* of either for an exponential function).
Stitching(functions, bounds) ==
    [NewObj("Type3Function") EXCEPT
        !.elems = [i \in 1..functions |-> "FunctionId"], !.bounds = bounds]

capy_type3_function_new(functions, bounds) ==
    IF functions # bounds + 1
    THEN [ec |-> ErrInvalidArgument, obj |-> FreshObj]
    ELSE [ec |-> EC_OK, obj |-> Stitching(functions, bounds)]

capy_generator_add_function(g, f) ==
    IF g.consumed
    THEN [ec |-> ErrDocumentConsumed, gen |-> g, id |-> 0]
    ELSE [ec |-> EC_OK,
          gen |-> [g EXCEPT !.funcs =
                       Append(@, [subs |-> Len(f.elems), bounds |-> f.bounds])],
          id |-> Len(g.funcs)]

\* Colors.  A Color object holds one value: a device color, or the id of
\* a pattern.  A new Color is a device color.
DeviceColor == Handle("DeviceRGB", 0)

capy_color_new == [ec |-> EC_OK, obj |-> [NewObj("Color") EXCEPT !.elems = <<DeviceColor>>]]

capy_color_set_rgb(col) == [ec |-> EC_OK, obj |-> [col EXCEPT !.elems = <<DeviceColor>>]]

capy_color_set_pattern(col, pattern_id) ==
    [ec |-> EC_OK, obj |-> [col EXCEPT !.elems = <<pattern_id>>]]

\* Setting the stroke or nonstroke color appends the operator of the
\* color's value; a pattern color names a pattern of the document.
ColorOp(value, device, pattern0, pattern1) ==
    IF value.kind # "PatternId" THEN device
    ELSE IF value.id = 0 THEN pattern0 ELSE pattern1

SetColor(d, g, col, op) ==
    LET value == col.elems[1]
    IN IF value.kind = "PatternId" /\ value.id \notin 0..(Len(g.res["pattern"]) - 1)
       THEN [ec |-> ErrUnknownHandle, dc |-> d]
       ELSE [ec |-> EC_OK, dc |-> Emit(d, op)]

capy_dc_set_stroke(d, g, col) ==
    SetColor(d, g, col, ColorOp(col.elems[1], "RG", "SCN P0", "SCN P1"))

capy_dc_set_nonstroke(d, g, col) ==
    SetColor(d, g, col, ColorOp(col.elems[1], "rg", "scn P0", "scn P1"))

\* add_image, add_graphics_state and the add_type*_shading calls: the
\* resource gets the next id of its kind.
capy_generator_add_counted(g, kind) ==
    IF g.consumed
    THEN [ec |-> ErrDocumentConsumed, gen |-> g, id |-> 0]
    ELSE [ec |-> EC_OK, gen |-> [g EXCEPT !.made[kind] = @ + 1], id |-> g.made[kind]]

\* lookup: the id names a resource of its kind registered with the document.
KnownHandle(g, h) ==
    IF h.kind = "TransparencyGroupId"
    THEN h.id \in 0..(Len(g.res["tgroup"]) - 1)
    ELSE h.id \in 0..(g.made[h.kind] - 1)

\* The operators that invoke a registered resource.  The native call
\* receives a structure of the declared class and reads its id.
UseResource(d, g, h, op) ==
    IF ~KnownHandle(g, h)
    THEN [ec |-> ErrUnknownHandle, dc |-> d]
    ELSE [ec |-> EC_OK, dc |-> Emit(d, op)]

capy_dc_draw_image(d, g, iid) == UseResource(d, g, iid, "Do image")

capy_dc_cmd_Do(d, g, tgid) == UseResource(d, g, tgid, "Do group")

capy_dc_cmd_sh(d, g, shid) == UseResource(d, g, shid, "sh")

capy_dc_cmd_gs(d, g, gsid) == UseResource(d, g, gsid, "gs")

\* Structure items.  An item is stored as the id of its parent, NoParent
\* for a top-level item; the id of an item is its position, counted from 0.
NoParent == -1

KnownItem(g, h) == h.id \in 0..(Len(g.items) - 1)

capy_generator_add_structure_item(g, parentptr) ==
    IF g.consumed
    THEN [ec |-> ErrDocumentConsumed, gen |-> g, id |-> 0]
    ELSE IF parentptr # NoHandle /\ ~KnownItem(g, parentptr)
    THEN [ec |-> ErrUnknownParent, gen |-> g, id |-> 0]
    ELSE [ec |-> EC_OK,
          gen |-> [g EXCEPT !.items =
                       Append(@, IF parentptr = NoHandle THEN NoParent
                                 ELSE parentptr.id)],
          id |-> Len(g.items)]

(***************************************************************************)
(* Destinations, outlines and the terminal write.                          *)
(***************************************************************************)
FreshDest == [live |-> FALSE, set |-> FALSE, page |-> 0, view |-> None]
FreshOutline == [live |-> FALSE, used |-> FALSE, dest |-> FreshDest, parent |-> NoParent]

capy_destination_set_page_fit(dest, page_num) ==
    [ec |-> EC_OK,
     dest |-> [dest EXCEPT !.set = TRUE, !.page = page_num, !.view = "fit"]]

capy_destination_set_page_xyz(dest, page_number) ==
    [ec |-> EC_OK,
     dest |-> [dest EXCEPT !.set = TRUE, !.page = page_number, !.view = "xyz"]]

\* The outline keeps the destination's value as it is at the call.
capy_outline_set_destination(o, dest) ==
    [ec |-> EC_OK, outline |-> [o EXCEPT !.dest = dest]]

\* The outline keeps the integer of the parent id; an Outline object belongs
\* to no document yet, so nothing can be looked up at this call.
capy_outline_set_parent(o, parent) ==
    [ec |-> EC_OK, outline |-> [o EXCEPT !.parent = parent.id]]

\* The entry also notes how many pages the document had when it was made:
\* a destination may name a page that does not exist yet.
capy_generator_add_outline(g, o) ==
    IF g.consumed
    THEN [ec |-> ErrDocumentConsumed, gen |-> g, id |-> 0]
    ELSE [ec |-> EC_OK,
          gen |-> [g EXCEPT !.outlines =
                       Append(@, [dest |-> o.dest, pages_then |-> Len(g.pages),
                                  parent |-> o.parent])],
          id |-> Len(g.outlines)]

\* Deferred resolution: a destination names a page of the final page list.
Resolvable(g, dest) == ~dest.set \/ dest.page < Len(g.pages)

\* The page of the written document a destination is resolved to
\* (1-based position in the written page sequence; 0: the outline has none).
Resolve(dest) == IF dest.set THEN dest.page + 1 ELSE 0

\* The outline tree is walked before anything is written: from every entry
\* the chain of parents ends at an entry without parent, through entries
\* of the document only.  Ids count from 0, positions from 1.
RECURSIVE Rooted(_, _, _)
Rooted(parents, id, fuel) ==
    IF parents[id + 1] = NoParent THEN TRUE
    ELSE IF parents[id + 1] \notin 0..(Len(parents) - 1) \/ fuel = 0 THEN FALSE
    ELSE Rooted(parents, parents[id + 1], fuel - 1)

IsForest(parents) ==
    \A id \in 0..(Len(parents) - 1) : Rooted(parents, id, Len(parents))

OutlineParents(g) == [i \in 1..Len(g.outlines) |-> g.outlines[i].parent]

\* Single use: the first invocation consumes the document whatever its
\* outcome, and a consumed document is never written again.
capy_generator_write(g, f) ==
    IF Len(g.pages) = 0
    THEN [ec |-> ErrNoPagesDefined, gen |-> [g EXCEPT !.consumed = TRUE], file |-> f]
    ELSE IF g.consumed
    THEN [ec |-> ErrDocumentConsumed, gen |-> g, file |-> f]
    ELSE IF \E i \in 1..Len(g.outlines) : ~Resolvable(g, g.outlines[i].dest)
    THEN [ec |-> ErrInvalidPageNumber, gen |-> [g EXCEPT !.consumed = TRUE], file |-> f]
    ELSE IF ~IsForest(OutlineParents(g))
    THEN [ec |-> ErrUnknownParent, gen |-> [g EXCEPT !.consumed = TRUE], file |-> f]
    ELSE [ec |-> EC_OK,
          gen |-> [g EXCEPT !.consumed = TRUE],
          file |-> [exists |-> TRUE,
                    pages |-> g.pages,
                    outlines |-> [i \in 1..Len(g.outlines) |-> Resolve(g.outlines[i].dest)],
                    parents |-> OutlineParents(g)]]

(***************************************************************************)
(* The calling program: with-blocks and exceptions.                        *)
(***************************************************************************)
NoToken == [kind |-> "None", obj |-> None, base |-> 0]

Token(kind, obj, base) == [kind |-> kind, obj |-> obj, base |-> base]

Top == frames[Len(frames)]

Pop == SubSeq(frames, 1, Len(frames) - 1)

Held(obj) == \E i \in 1..Len(frames) : frames[i].obj = obj

HeldAs(kind, obj) ==
    \E i \in 1..Len(frames) : frames[i].kind = kind /\ frames[i].obj = obj

NFrames(kind) == Cardinality({i \in 1..Len(frames) : frames[i].kind = kind})

RECURSIVE SumOps(_)
SumOps(S) ==
    IF S = {} THEN 0
    ELSE LET c == CHOOSE x \in S : TRUE
         IN Len(dc[c].ops) + SumOps(S \ {c})

RECURSIVE SumLen(_)
SumLen(seqs) ==
    IF seqs = <<>> THEN 0 ELSE Len(Head(seqs)) + SumLen(Tail(seqs))

\* Operators emitted in the session so far (in open buffers, in the text
\* object and in registered pages and resources), plus those the open
\* blocks and the open text object will still append when they are closed.
Used ==
    SumOps(CtxIds) + Len(text.ops) + NFrames("state") + NFrames("marked")
    + (IF text.state = "open" THEN 2 ELSE 0)
    + SumLen(gen.pages)
    + SumLen(gen.res["form"]) + SumLen(gen.res["pattern"]) + SumLen(gen.res["tgroup"])

Room(n) == Used + n <= MaxOps

PageRoom == Len(gen.pages) + NFrames("page") < MaxPages

\* A call returns or raises: the exception, if any, starts to propagate.
Outcome(e) ==
    /\ exc' = e
    /\ unwinding' = (e # NoExc)

\* An __exit__ returns a falsy value: an exception that was propagating
\* keeps propagating unless __exit__ itself raises, which replaces it.
ExitOutcome(e) ==
    /\ exc' = (IF e # NoExc THEN e ELSE IF unwinding THEN exc ELSE NoExc)
    /\ unwinding' = (unwinding \/ e # NoExc)

\* `with <call>:` on the value the call returned.
WithStatement(e, token, as_with) ==
    IF e # NoExc \/ ~as_with
    THEN Outcome(e) /\ frames' = frames
    ELSE IF token = NoToken
    THEN Outcome("TypeError") /\ frames' = frames
    ELSE Outcome(NoExc) /\ frames' = Append(frames, token)

CanCall == ~unwinding

Open(c) == dc[c].state = "open"

IdClass(kind) ==
    CASE kind = "form" -> "FormXObjectId"
      [] kind = "pattern" -> "PatternId"
      [] kind = "tgroup" -> "TransparencyGroupId"

\* `return <handle>` is reached only when check_error did not raise.
Returns(e, h) == handles' = IF e = NoExc THEN handles \cup {h} ELSE handles

\* An except clause (or assertRaises) around the failing statement.
Catch ==
    /\ unwinding
    /\ unwinding' = FALSE
    /\ UNCHANGED <<dc, text, gen, file, dests, outl, frames, exc, handles, objs>>

(***************************************************************************)
(* DrawContextBase: operators.                                             *)
(***************************************************************************)
DcCall(c, r) ==
    /\ dc' = [dc EXCEPT ![c] = r.dc]
    /\ Outcome(check_error(r.ec))
    /\ UNCHANGED <<text, gen, file, dests, outl, frames, handles, objs>>

cmd_q(c) ==
    /\ CanCall /\ Open(c) /\ Room(1)
    /\ DcCall(c, capy_dc_cmd_q(dc[c]))

\* cmd_Q with its return code ignored.
cmd_Q_unchecked(c) ==
    /\ CanCall /\ Open(c) /\ (dc[c].q = 0 \/ Room(1))
    /\ dc' = [dc EXCEPT ![c] = capy_dc_cmd_Q(dc[c]).dc]
    /\ Outcome(NoExc)
    /\ UNCHANGED <<text, gen, file, dests, outl, frames, handles, objs>>

cmd_Q(c) ==
    /\ CanCall /\ Open(c) /\ (dc[c].q = 0 \/ Room(1))
    /\ DcCall(c, capy_dc_cmd_Q(dc[c]))

\* cmd_w with its return code ignored.
cmd_w_unchecked(c, line_width) ==
    /\ CanCall /\ Open(c) /\ (line_width < 0 \/ Room(1))
    /\ dc' = [dc EXCEPT ![c] = capy_dc_cmd_w(dc[c], line_width).dc]
    /\ Outcome(NoExc)
    /\ UNCHANGED <<text, gen, file, dests, outl, frames, handles, objs>>

cmd_w(c, line_width) ==
    /\ CanCall /\ Open(c) /\ (line_width < 0 \/ Room(1))
    /\ DcCall(c, capy_dc_cmd_w(dc[c], line_width))

cmd_re(c) ==
    /\ CanCall /\ Open(c) /\ Room(1)
    /\ DcCall(c, capy_dc_cmd_re(dc[c]))

\* What a program can pass where an id is expected: an id object of some
\* class, returned by a call or built by the program, or a plain integer.
IdClasses ==
    {"ImageId", "ShadingId", "GraphicsStateId", "TransparencyGroupId",
     "FontId", "int"}

IdArgs == {Handle(k, i) : k \in IdClasses, i \in {0, 1}}

UseRoom(c) == Len(dc[c].ops) < MaxUse

\* A foreign function with declared argument types converts each argument
\* before the call: a structure parameter takes an instance of its class.
ArgumentError(h, cls) ==
    IF h.kind = cls THEN NoExc ELSE "ArgumentError"

Refused(e) ==
    /\ Outcome(e)
    /\ UNCHANGED <<dc, text, gen, file, dests, outl, frames, handles, objs>>

\* Variant of draw_image without the isinstance test and with a native
\* function that has no declared argument types: only the id is passed.
draw_image_untyped(c, iid) ==
    /\ CanCall /\ Open(c) /\ UseRoom(c)
    /\ DcCall(c, capy_dc_draw_image(dc[c], gen, Handle("ImageId", iid.id)))

draw_image(c, iid) ==
    /\ CanCall /\ Open(c) /\ UseRoom(c)
    /\ IF iid.kind # "ImageId"
       THEN Refused("Image id argument is not an image id object.")
       ELSE DcCall(c, capy_dc_draw_image(dc[c], gen, iid))

cmd_Do(c, tgid) ==
    /\ CanCall /\ Open(c) /\ UseRoom(c)
    /\ IF tgid.kind # "TransparencyGroupId"
       THEN Refused("Argument must be a transparency group id.")
       ELSE DcCall(c, capy_dc_cmd_Do(dc[c], gen, tgid))

cmd_gs(c, gsid) ==
    /\ CanCall /\ Open(c) /\ UseRoom(c)
    /\ IF gsid.kind # "GraphicsStateId"
       THEN Refused("Argument must be a graphics state id.")
       ELSE DcCall(c, capy_dc_cmd_gs(dc[c], gen, gsid))

\* cmd_sh has no test of its own: the argument conversion is the only one.
cmd_sh(c, shid) ==
    /\ CanCall /\ Open(c) /\ UseRoom(c)
    /\ IF ArgumentError(shid, "ShadingId") # NoExc
       THEN Refused(ArgumentError(shid, "ShadingId"))
       ELSE DcCall(c, capy_dc_cmd_sh(dc[c], gen, shid))

\* cmd_EMC with its return code ignored.
cmd_EMC_unchecked(c) ==
    /\ CanCall /\ Open(c) /\ (dc[c].m = 0 \/ Room(1))
    /\ dc' = [dc EXCEPT ![c] = capy_dc_cmd_EMC(dc[c]).dc]
    /\ Outcome(NoExc)
    /\ UNCHANGED <<text, gen, file, dests, outl, frames, handles, objs>>

cmd_EMC(c) ==
    /\ CanCall /\ Open(c) /\ (dc[c].m = 0 \/ Room(1))
    /\ DcCall(c, capy_dc_cmd_EMC(dc[c]))

MarkedCall(c, r, token, as_with) ==
    /\ CanCall /\ Open(c)
    /\ Room(IF as_with THEN 2 ELSE 1)
    /\ as_with => Len(frames) < MaxFrames
    /\ dc' = [dc EXCEPT ![c] = r.dc]
    /\ WithStatement(check_error(r.ec), token, as_with)
    /\ UNCHANGED <<text, gen, file, dests, outl, handles, objs>>

\* No return statement: the call evaluates to None.
cmd_BDC(c, as_with) ==
    MarkedCall(c, capy_dc_cmd_BDC_ocg(dc[c]), NoToken, as_with)

cmd_BDC_builtin(c, as_with) ==
    MarkedCall(c, capy_dc_cmd_BDC_builtin(dc[c]), Token("marked", c, 0), as_with)

cmd_BMC(c, as_with) ==
    MarkedCall(c, capy_dc_cmd_BMC(dc[c]), Token("marked", c, 0), as_with)

(***************************************************************************)
(* StateContextManager and DrawContext.push_gstate.                        *)
(***************************************************************************)
\* The constructor emits q; the frame remembers the depth the call found.
\* A manager that emits q in __enter__ instead of its constructor.
push_gstate_on_enter(c, as_with) ==
    /\ CanCall /\ c \in PageCtx /\ Open(c)
    /\ Room(IF as_with THEN 2 ELSE 1)
    /\ as_with => Len(frames) < MaxFrames
    /\ LET r == IF as_with THEN capy_dc_cmd_q(dc[c]) ELSE [ec |-> EC_OK, dc |-> dc[c]]
       IN /\ dc' = [dc EXCEPT ![c] = r.dc]
          /\ WithStatement(check_error(r.ec), Token("state", c, dc[c].q), as_with)
    /\ UNCHANGED <<text, gen, file, dests, outl, handles, objs>>

push_gstate(c, as_with) ==
    /\ CanCall /\ c \in PageCtx /\ Open(c)
    /\ Room(IF as_with THEN 2 ELSE 1)
    /\ as_with => Len(frames) < MaxFrames
    /\ LET r == capy_dc_cmd_q(dc[c])
       IN /\ dc' = [dc EXCEPT ![c] = r.dc]
          /\ WithStatement(check_error(r.ec), Token("state", c, dc[c].q), as_with)
    /\ UNCHANGED <<text, gen, file, dests, outl, handles, objs>>

\* An __exit__ that restores the state only when the body did not raise.
StateContextManager_exit_if_clean ==
    /\ frames # <<>> /\ Top.kind = "state"
    /\ IF unwinding
       THEN ExitOutcome(NoExc) /\ UNCHANGED dc
       ELSE LET c == Top.obj
                r == capy_dc_cmd_Q(dc[c])
            IN /\ dc' = [dc EXCEPT ![c] = r.dc]
               /\ ExitOutcome(check_error(r.ec))
    /\ frames' = Pop
    /\ UNCHANGED <<text, gen, file, dests, outl, handles, objs>>

StateContextManager_exit ==
    /\ frames # <<>> /\ Top.kind = "state"
    /\ LET c == Top.obj
           r == capy_dc_cmd_Q(dc[c])
       IN /\ dc' = [dc EXCEPT ![c] = r.dc]
          /\ ExitOutcome(check_error(r.ec))
    /\ frames' = Pop
    /\ UNCHANGED <<text, gen, file, dests, outl, handles, objs>>

(***************************************************************************)
(* MarkedContextManager: its dc is a draw context or the Text object.      *)
(***************************************************************************)
MarkedContextManager_exit ==
    /\ frames # <<>> /\ Top.kind = "marked"
    /\ IF Top.obj = "text"
       THEN LET r == capy_text_cmd_EMC(text)
            IN /\ text' = r.text
               /\ ExitOutcome(check_error(r.ec))
               /\ UNCHANGED dc
       ELSE LET r == capy_dc_cmd_EMC(dc[Top.obj])
            IN /\ dc' = [dc EXCEPT ![Top.obj] = r.dc]
               /\ ExitOutcome(check_error(r.ec))
               /\ UNCHANGED text
    /\ frames' = Pop
    /\ UNCHANGED <<gen, file, dests, outl, handles, objs>>

(***************************************************************************)
(* Draw contexts: creation, the page with-block, destruction.              *)
(***************************************************************************)
TextOn(c) == text.state # "none" /\ text.dc = c

NewContext(c) ==
    /\ CanCall /\ dc[c].state = "none"
    /\ Cardinality({x \in CtxIds : dc[x].state # "none"}) < MaxOpen
    /\ dc' = [dc EXCEPT ![c] = [FreshDc EXCEPT !.state = "open", !.generator = "g"]]
    /\ Outcome(NoExc)
    /\ UNCHANGED <<text, gen, file, dests, outl, frames, handles, objs>>

page_draw_context(c) == c \in PageCtx /\ NewContext(c)

create_color_pattern_context(c) == c \in PatternCtx /\ NewContext(c)

FormXObjectDrawContext_init(c) == c \in FormCtx /\ NewContext(c)

TransparencyGroupDrawContext_init(c) == c \in GroupCtx /\ NewContext(c)

DrawContext_enter(c) ==
    /\ CanCall /\ c \in PageCtx /\ Open(c)
    /\ ~Held(c) /\ ~TextOn(c)
    /\ PageRoom /\ Len(frames) < MaxFrames
    /\ frames' = Append(frames, Token("page", c, 0))
    /\ UNCHANGED <<dc, text, gen, file, dests, outl, exc, unwinding, handles, objs>>

\* An __exit__ that adds the page only when something was drawn on it.
DrawContext_exit_skip_empty ==
    /\ frames # <<>> /\ Top.kind = "page"
    /\ LET c == Top.obj
       IN IF dc[c].generator = None
          THEN /\ ExitOutcome("AttributeError")
               /\ UNCHANGED <<dc, gen>>
          ELSE IF dc[c].ops = <<>>
          THEN /\ ExitOutcome(NoExc)
               /\ dc' = [dc EXCEPT ![c].generator = None]
               /\ UNCHANGED gen
          ELSE LET r == capy_generator_add_page(gen, dc[c])
               IN /\ gen' = r.gen
                  /\ dc' = [dc EXCEPT ![c] = [r.dc EXCEPT !.generator = None]]
                  /\ ExitOutcome(check_error(r.ec))
    /\ frames' = Pop
    /\ UNCHANGED <<text, file, dests, outl, handles, objs>>

\* add_page runs on every exit path; the generator reference is then cleared.
\* An __exit__ that adds the page only when the body did not raise.
DrawContext_exit_if_clean ==
    /\ frames # <<>> /\ Top.kind = "page"
    /\ LET c == Top.obj
       IN IF dc[c].generator = None
          THEN /\ ExitOutcome("AttributeError")
               /\ UNCHANGED <<dc, gen>>
          ELSE IF unwinding
          THEN /\ ExitOutcome(NoExc)
               /\ dc' = [dc EXCEPT ![c].generator = None]
               /\ UNCHANGED gen
          ELSE LET r == capy_generator_add_page(gen, dc[c])
               IN /\ gen' = r.gen
                  /\ dc' = [dc EXCEPT ![c] = [r.dc EXCEPT !.generator = None]]
                  /\ ExitOutcome(check_error(r.ec))
    /\ frames' = Pop
    /\ UNCHANGED <<text, file, dests, outl, handles, objs>>

DrawContext_exit ==
    /\ frames # <<>> /\ Top.kind = "page"
    /\ LET c == Top.obj
       IN IF dc[c].generator = None
          THEN /\ ExitOutcome("AttributeError")
               /\ UNCHANGED <<dc, gen>>
          ELSE LET r == capy_generator_add_page(gen, dc[c])
               IN /\ gen' = r.gen
                  /\ dc' = [dc EXCEPT ![c] = [r.dc EXCEPT !.generator = None]]
                  /\ ExitOutcome(check_error(r.ec))
    /\ frames' = Pop
    /\ UNCHANGED <<text, file, dests, outl, handles, objs>>

\* A destructor that flushes the buffer into the document as a page.
DrawContextBase_del_flush(c) ==
    /\ CanCall /\ dc[c].state \in {"open", "added"}
    /\ ~Held(c) /\ ~TextOn(c)
    /\ dc' = [dc EXCEPT ![c] = FreshDc]
    /\ gen' = [gen EXCEPT !.pages = Append(@, dc[c].ops)]
    /\ UNCHANGED <<text, file, dests, outl, frames, exc, unwinding, handles, objs>>

DrawContextBase_del(c) ==
    /\ CanCall /\ dc[c].state \in {"open", "added"}
    /\ ~Held(c) /\ ~TextOn(c)
    /\ dc' = [dc EXCEPT ![c] = FreshDc]
    /\ UNCHANGED <<text, gen, file, dests, outl, frames, exc, unwinding, handles, objs>>

(***************************************************************************)
(* Generator: registration of buffers and resources.                       *)
(***************************************************************************)
Registrable(c) == CanCall /\ Open(c) /\ ~Held(c) /\ ~TextOn(c)

\* add_page with its return code ignored.
add_page_unchecked(c) ==
    /\ Registrable(c) /\ c \in PageCtx /\ PageRoom
    /\ LET r == capy_generator_add_page(gen, dc[c])
       IN /\ gen' = r.gen
          /\ dc' = [dc EXCEPT ![c] = r.dc]
          /\ Outcome(NoExc)
    /\ UNCHANGED <<text, file, dests, outl, frames, handles, objs>>

add_page(c) ==
    /\ Registrable(c) /\ c \in PageCtx /\ PageRoom
    /\ LET r == capy_generator_add_page(gen, dc[c])
       IN /\ gen' = r.gen
          /\ dc' = [dc EXCEPT ![c] = r.dc]
          /\ Outcome(check_error(r.ec))
    /\ UNCHANGED <<text, file, dests, outl, frames, handles, objs>>

AddResource(c, kind) ==
    /\ Registrable(c) /\ KindOf(c) = kind
    /\ Len(gen.res[kind]) < MaxResources
    /\ LET r == capy_generator_add_resource(gen, dc[c], kind)
       IN /\ gen' = r.gen
          /\ dc' = [dc EXCEPT ![c] = r.dc]
          /\ Outcome(check_error(r.ec))
          /\ Returns(check_error(r.ec), Handle(IdClass(kind), r.id))
    /\ UNCHANGED <<text, file, dests, outl, frames, objs>>

add_form_xobject(c) == AddResource(c, "form")

\* Variant that registers the group through the page list.
add_transparency_group_as_page(c) ==
    /\ Registrable(c) /\ KindOf(c) = "tgroup"
    /\ Len(gen.res["tgroup"]) < MaxResources
    /\ LET r == capy_generator_add_page(gen, dc[c])
       IN /\ gen' = r.gen
          /\ dc' = [dc EXCEPT ![c] = r.dc]
          /\ Outcome(check_error(r.ec))
          /\ Returns(check_error(r.ec), Handle("TransparencyGroupId", 0))
    /\ UNCHANGED <<text, file, dests, outl, frames, objs>>

add_transparency_group(c) == AddResource(c, "tgroup")

add_color_pattern(c) == AddResource(c, "pattern")

(***************************************************************************)
(* Type4Shading and Type6Shading.  A list argument is given by its length. *)
(***************************************************************************)
Shading_init(s, class) ==
    /\ CanCall /\ ~objs[s].live
    /\ objs' = [objs EXCEPT ![s] = NewObj(class)]
    /\ Outcome(NoExc)
    /\ UNCHANGED <<dc, text, gen, file, dests, outl, frames, handles>>

Type4Shading_init(s) == Shading_init(s, "Type4Shading")

Type6Shading_init(s) == Shading_init(s, "Type6Shading")

ShadingRaise(e) == Outcome(e) /\ UNCHANGED objs

ShadingCall(s, r) ==
    /\ objs' = [objs EXCEPT ![s] = r.obj]
    /\ Outcome(check_error(r.ec))

ShadingOpen(s, class) ==
    /\ CanCall /\ objs[s].live /\ objs[s].class = class
    /\ Len(objs[s].elems) < MaxElems

\* Variant without the length tests.
add_triangle_unchecked(s, coords, colors) ==
    /\ ShadingOpen(s, "Type4Shading")
    /\ ShadingCall(s, capy_type4_shading_add_triangle(objs[s]))
    /\ UNCHANGED <<dc, text, gen, file, dests, outl, frames, handles>>

add_triangle(s, coords, colors) ==
    /\ ShadingOpen(s, "Type4Shading")
    /\ IF coords # 6 THEN ShadingRaise("Must have exactly 6 floats.")
       ELSE IF colors # 3 THEN ShadingRaise("Must have exactly 3 colors.")
       ELSE ShadingCall(s, capy_type4_shading_add_triangle(objs[s]))
    /\ UNCHANGED <<dc, text, gen, file, dests, outl, frames, handles>>

add_patch(s, coords, colors) ==
    /\ ShadingOpen(s, "Type6Shading")
    /\ IF coords # 24 THEN ShadingRaise("Must have exactly 24 floats.")
       ELSE IF colors # 4 THEN ShadingRaise("Must have exactly 4 colors.")
       ELSE ShadingCall(s, capy_type6_shading_add_patch(objs[s]))
    /\ UNCHANGED <<dc, text, gen, file, dests, outl, frames, handles>>

Type6Shading_extend(s, flag, coords, colors) ==
    /\ ShadingOpen(s, "Type6Shading")
    /\ IF flag \in {1, 2, 3}
       THEN IF coords # 16 THEN ShadingRaise("Must have exactly 16 floats.")
            ELSE IF colors # 2 THEN ShadingRaise("Must have exactly 2 colors.")
            ELSE ShadingCall(s, capy_type6_shading_extend(objs[s], flag))
       ELSE ShadingRaise("Bad flag value")
    /\ UNCHANGED <<dc, text, gen, file, dests, outl, frames, handles>>

(***************************************************************************)
(* Color, set_stroke and set_nonstroke.                                    *)
(***************************************************************************)
Color_init(col) ==
    /\ CanCall /\ ~objs[col].live
    /\ LET r == capy_color_new
       IN objs' = [objs EXCEPT ![col] = r.obj] /\ Outcome(check_error(r.ec))
    /\ UNCHANGED <<dc, text, gen, file, dests, outl, frames, handles>>

set_rgb(col) ==
    /\ CanCall /\ objs[col].live
    /\ LET r == capy_color_set_rgb(objs[col])
       IN objs' = [objs EXCEPT ![col] = r.obj] /\ Outcome(check_error(r.ec))
    /\ UNCHANGED <<dc, text, gen, file, dests, outl, frames, handles>>

PatternArgs == {Handle("PatternId", k) : k \in {0, 1}}

set_pattern(col, pattern_id) ==
    /\ CanCall /\ objs[col].live
    /\ IF ArgumentError(pattern_id, "PatternId") # NoExc
       THEN Outcome(ArgumentError(pattern_id, "PatternId")) /\ UNCHANGED objs
       ELSE LET r == capy_color_set_pattern(objs[col], pattern_id)
            IN objs' = [objs EXCEPT ![col] = r.obj] /\ Outcome(check_error(r.ec))
    /\ UNCHANGED <<dc, text, gen, file, dests, outl, frames, handles>>

\* What a program can pass as color: the Color object, a PatternId, or
\* an object of another class.
ColorArgs == {Handle("Color", 0), Handle("FontId", 0), Handle("str", 0)} \cup PatternArgs

TheColor == CHOOSE col \in ColorIds : TRUE

\* A PatternId is turned into a new Color holding that pattern; the Color
\* passed on is that one, or the program's own.
AsColor(color) ==
    IF color.kind = "PatternId"
    THEN capy_color_set_pattern(capy_color_new.obj, color).obj
    ELSE objs[TheColor]

SetColorCall(c, color, r) ==
    /\ CanCall /\ Open(c)
    /\ UseRoom(c) \/ color.kind \notin {"PatternId", "Color"}
    /\ color.kind = "Color" => objs[TheColor].live
    /\ IF color.kind \notin {"PatternId", "Color"}
       THEN Refused("Argument must be a Color object.")
       ELSE DcCall(c, r)

\* Variant without the conversion of a PatternId.
set_stroke_colors_only(c, color) ==
    /\ CanCall /\ Open(c)
    /\ UseRoom(c) \/ color.kind \notin {"PatternId", "Color"}
    /\ color.kind = "Color" => objs[TheColor].live
    /\ IF color.kind # "Color"
       THEN Refused("Argument must be a Color object.")
       ELSE DcCall(c, capy_dc_set_stroke(dc[c], gen, objs[TheColor]))

set_stroke(c, color) ==
    SetColorCall(c, color, capy_dc_set_stroke(dc[c], gen, AsColor(color)))

set_nonstroke(c, color) ==
    SetColorCall(c, color, capy_dc_set_nonstroke(dc[c], gen, AsColor(color)))

(***************************************************************************)
(* Functions.                                                              *)
(***************************************************************************)
FunctionRoom == gen.consumed \/ Len(gen.funcs) < MaxFuncs

add_type2_function(type2func) ==
    /\ CanCall /\ FunctionRoom
    /\ IF type2func # "Type2Function"
       THEN /\ Outcome("Argument must be a function.")
            /\ UNCHANGED <<gen, handles>>
       ELSE LET r == capy_generator_add_function(gen, NewObj("Type2Function"))
            IN /\ gen' = r.gen /\ Outcome(check_error(r.ec))
               /\ Returns(check_error(r.ec), Handle("FunctionId", r.id))
    /\ UNCHANGED <<dc, text, file, dests, outl, frames, objs>>

\* Variant that builds the object whatever the native call answers.
Type3Function_init_unchecked(f, functions, bounds) ==
    /\ CanCall /\ ~objs[f].live
    /\ objs' = [objs EXCEPT ![f] = Stitching(functions, bounds)]
    /\ Outcome(NoExc)
    /\ UNCHANGED <<dc, text, gen, file, dests, outl, frames, handles>>

Type3Function_init(f, functions, bounds) ==
    /\ CanCall /\ ~objs[f].live
    /\ LET r == capy_type3_function_new(functions, bounds)
       IN /\ objs' = [objs EXCEPT ![f] = r.obj]
          /\ Outcome(check_error(r.ec))
    /\ UNCHANGED <<dc, text, gen, file, dests, outl, frames, handles>>

add_function(f) ==
    /\ CanCall /\ FunctionRoom /\ objs[f].live /\ objs[f].class = "Type3Function"
    /\ LET r == capy_generator_add_function(gen, objs[f])
       IN /\ gen' = r.gen /\ Outcome(check_error(r.ec))
          /\ Returns(check_error(r.ec), Handle("FunctionId", r.id))
    /\ UNCHANGED <<dc, text, file, dests, outl, frames, objs>>

\* Variant whose FontId is never filled in by the native call.
AddCounted(kind) ==
    LET r == capy_generator_add_counted(gen, kind)
    IN /\ gen' = r.gen /\ Outcome(check_error(r.ec))
       /\ Returns(check_error(r.ec), Handle(kind, r.id))

add_image(ri, params) ==
    /\ CanCall /\ (gen.consumed \/ gen.made["ImageId"] < MaxResources)
    /\ IF ri # "RasterImage"
       THEN /\ Outcome("First argument must be a raster image.")
            /\ UNCHANGED <<gen, handles>>
       ELSE IF params # "ImagePdfProperties"
       THEN /\ Outcome("Second argument must be an PDF property object.")
            /\ UNCHANGED <<gen, handles>>
       ELSE AddCounted("ImageId")
    /\ UNCHANGED <<dc, text, file, dests, outl, frames, objs>>

add_graphics_state(gs) ==
    /\ CanCall /\ (gen.consumed \/ gen.made["GraphicsStateId"] < MaxResources)
    /\ IF gs # "GraphicsState"
       THEN /\ Outcome("Argument must be a graphics state object.")
            /\ UNCHANGED <<gen, handles>>
       ELSE AddCounted("GraphicsStateId")
    /\ UNCHANGED <<dc, text, file, dests, outl, frames, objs>>

add_type2_shading(type2shade) ==
    /\ CanCall /\ (gen.consumed \/ gen.made["ShadingId"] < MaxResources)
    /\ IF type2shade # "Type2Shading"
       THEN /\ Outcome("Argument must be a type 2 shading object.")
            /\ UNCHANGED <<gen, handles>>
       ELSE AddCounted("ShadingId")
    /\ UNCHANGED <<dc, text, file, dests, outl, frames, objs>>

load_font_unfilled ==
    /\ CanCall /\ (gen.consumed \/ gen.fonts < MaxResources)
    /\ LET r == capy_generator_load_font(gen)
       IN /\ gen' = r.gen /\ Outcome(check_error(r.ec))
          /\ Returns(check_error(r.ec), Handle("FontId", 0))
    /\ UNCHANGED <<dc, text, file, dests, outl, frames, objs>>

load_font ==
    /\ CanCall /\ (gen.consumed \/ gen.fonts < MaxResources)
    /\ LET r == capy_generator_load_font(gen)
       IN /\ gen' = r.gen /\ Outcome(check_error(r.ec))
          /\ Returns(check_error(r.ec), Handle("FontId", r.id))
    /\ UNCHANGED <<dc, text, file, dests, outl, frames, objs>>

(***************************************************************************)
(* Generator: structure items.                                             *)
(***************************************************************************)
StructTypes == {"StructureType", "str"}

\* What a program can pass as parent: None, a StructureItemId with some
\* id, or an object of another class.
ParentArgs ==
    {NoHandle, Handle("OutlineId", 0)}
    \cup {Handle("StructureItemId", k) : k \in 0..MaxItems}

\* Where the object passed as parent came from: returned by this Generator,
\* returned by another Generator, or built by the program.  Only the id
\* field of the object reaches the native call.
Origins == {"this", "other", "made"}

\* Variant that never hands the parent to the native call.
add_structure_item_orphan(struct_type, parent, origin) ==
    /\ CanCall
    /\ gen.consumed \/ Len(gen.items) < MaxItems
    /\ origin = "this" => parent \in handles
    /\ IF parent # NoHandle /\ parent.kind # "StructureItemId"
       THEN /\ Outcome("Parent argument must be a StructureItemID or None.")
            /\ UNCHANGED <<gen, handles>>
       ELSE IF struct_type # "StructureType"
       THEN /\ Outcome("First argument must be a structure item or role id.")
            /\ UNCHANGED <<gen, handles>>
       ELSE LET r == capy_generator_add_structure_item(gen, NoHandle)
            IN /\ gen' = r.gen
               /\ Outcome(check_error(r.ec))
               /\ Returns(check_error(r.ec), Handle("StructureItemId", r.id))
    /\ UNCHANGED <<dc, text, file, dests, outl, frames, objs>>

add_structure_item(struct_type, parent, origin) ==
    /\ CanCall
    /\ gen.consumed \/ Len(gen.items) < MaxItems
    /\ origin = "this" => parent \in handles
    /\ IF parent # NoHandle /\ parent.kind # "StructureItemId"
       THEN /\ Outcome("Parent argument must be a StructureItemID or None.")
            /\ UNCHANGED <<gen, handles>>
       ELSE IF struct_type # "StructureType"
       THEN /\ Outcome("First argument must be a structure item or role id.")
            /\ UNCHANGED <<gen, handles>>
       ELSE LET r == capy_generator_add_structure_item(gen, parent)
            IN /\ gen' = r.gen
               /\ Outcome(check_error(r.ec))
               /\ Returns(check_error(r.ec), Handle("StructureItemId", r.id))
    /\ UNCHANGED <<dc, text, file, dests, outl, frames, objs>>

(***************************************************************************)
(* Text.                                                                   *)
(***************************************************************************)
\* Text(dc) without the isinstance test.
text_new_any(c, as_with) ==
    /\ CanCall /\ Open(c) /\ text.state = "none"
    /\ as_with => Len(frames) < MaxFrames
    /\ Room(2)
    /\ text' = [FreshText EXCEPT !.state = "open", !.dc = c]
    /\ WithStatement(NoExc, Token("text", "text", 0), as_with)
    /\ UNCHANGED <<dc, gen, file, dests, outl, handles, objs>>

\* Text(dc) accepts a page DrawContext only; text_new() is Text(self).
text_new(c, as_with) ==
    /\ CanCall /\ Open(c) /\ text.state = "none"
    /\ as_with => Len(frames) < MaxFrames
    /\ IF c \notin PageCtx
       THEN /\ Outcome("Argument must be a DrawingContext (preferably use its .text_new() method instead).")
            /\ UNCHANGED <<text, frames>>
       ELSE /\ Room(2)
            /\ text' = [FreshText EXCEPT !.state = "open", !.dc = c]
            /\ WithStatement(NoExc, Token("text", "text", 0), as_with)
    /\ UNCHANGED <<dc, gen, file, dests, outl, handles, objs>>

TextCall(r) ==
    /\ text' = r.text
    /\ Outcome(check_error(r.ec))
    /\ UNCHANGED <<dc, gen, file, dests, outl, frames, handles, objs>>

\* Variant that emits the operator into the parent's buffer at once.
Text_cmd_Td_direct ==
    /\ CanCall /\ text.state = "open" /\ Room(1)
    /\ dc' = [dc EXCEPT ![text.dc] = Emit(@, "Td")]
    /\ Outcome(NoExc)
    /\ UNCHANGED <<text, gen, file, dests, outl, frames, handles, objs>>

Text_cmd_Td ==
    /\ CanCall /\ text.state = "open" /\ Room(1)
    /\ TextCall(capy_text_cmd_Td(text))

Text_cmd_EMC ==
    /\ CanCall /\ text.state = "open" /\ (text.m = 0 \/ Room(1))
    /\ TextCall(capy_text_cmd_EMC(text))

Text_cmd_BDC_builtin(as_with) ==
    /\ CanCall /\ text.state = "open"
    /\ Room(IF as_with THEN 2 ELSE 1)
    /\ as_with => Len(frames) < MaxFrames
    /\ LET r == capy_text_cmd_BDC_builtin(text)
       IN /\ text' = r.text
          /\ WithStatement(check_error(r.ec), Token("marked", "text", 0), as_with)
    /\ UNCHANGED <<dc, gen, file, dests, outl, handles, objs>>

render_text_obj(c) ==
    /\ CanCall /\ Open(c) /\ text.state = "open" /\ ~Held("text")
    /\ LET r == capy_dc_render_text_obj(dc[c], text)
       IN /\ dc' = [dc EXCEPT ![c] = r.dc]
          /\ text' = r.text
          /\ Outcome(check_error(r.ec))
    /\ UNCHANGED <<gen, file, dests, outl, frames, handles, objs>>

\* self.dc.render_text_obj(self) on every exit path; then self.dc = None.
Text_exit ==
    /\ frames # <<>> /\ Top.kind = "text"
    /\ LET r == capy_dc_render_text_obj(dc[text.dc], text)
       IN /\ dc' = [dc EXCEPT ![text.dc] = r.dc]
          /\ text' = [r.text EXCEPT !.dc = None]
          /\ ExitOutcome(check_error(r.ec))
    /\ frames' = Pop
    /\ UNCHANGED <<gen, file, dests, outl, handles, objs>>

Text_del ==
    /\ CanCall /\ text.state # "none" /\ ~Held("text")
    /\ text' = FreshText
    /\ UNCHANGED <<dc, gen, file, dests, outl, frames, exc, unwinding, handles, objs>>

(***************************************************************************)
(* TextSequence and the text-show operator TJ.                             *)
(***************************************************************************)
TextSequence_init(ks) ==
    /\ CanCall /\ ~objs[ks].live
    /\ LET r == capy_text_sequence_new
       IN objs' = [objs EXCEPT ![ks] = r.obj] /\ Outcome(check_error(r.ec))
    /\ UNCHANGED <<dc, text, gen, file, dests, outl, frames, handles>>

\* What a program passes as a code point: an int, or a one-character str.
CodepointArgs ==
    {[is_int |-> TRUE, int |-> 65, str |-> ""],
     [is_int |-> FALSE, int |-> 0, str |-> "V"]}

ord(ch) == CASE ch = "A" -> 65 [] ch = "V" -> 86

SequenceCall(ks, r) ==
    /\ objs' = [objs EXCEPT ![ks] = r.obj]
    /\ Outcome(check_error(r.ec))
    /\ UNCHANGED <<dc, text, gen, file, dests, outl, frames, handles>>

append_codepoint(ks, codepoint) ==
    /\ CanCall /\ objs[ks].live /\ Len(objs[ks].elems) < MaxUnits
    /\ LET cp == IF codepoint.is_int THEN codepoint.int ELSE ord(codepoint.str)
       IN SequenceCall(ks, capy_text_sequence_append_codepoint(objs[ks], cp))

append_kerning(ks, kern) ==
    /\ CanCall /\ objs[ks].live /\ Len(objs[ks].elems) < MaxUnits
    /\ SequenceCall(ks, capy_text_sequence_append_kerning(objs[ks], kern))

\* What a program can pass to cmd_TJ: its TextSequence, or something else.
TheSequence == CHOOSE ks \in SeqIds : TRUE
SequenceArgs == {Handle("TextSequence", 0), Handle("str", 0)}

\* Variant in which the operator takes the units out of the sequence.
cmd_TJ_consuming(seq) ==
    /\ CanCall /\ text.state = "open"
    /\ seq.kind = "TextSequence" => objs[TheSequence].live /\ Room(1)
    /\ IF seq.kind # "TextSequence"
       THEN Refused("Argument must be a kerning sequence.")
       ELSE LET r == capy_text_cmd_TJ(text, objs[TheSequence])
            IN /\ text' = r.text
               /\ objs' = [objs EXCEPT ![TheSequence].elems = <<>>]
               /\ Outcome(check_error(r.ec))
               /\ UNCHANGED <<dc, gen, file, dests, outl, frames, handles>>

cmd_TJ(seq) ==
    /\ CanCall /\ text.state = "open"
    /\ seq.kind = "TextSequence" => objs[TheSequence].live /\ Room(1)
    /\ IF seq.kind # "TextSequence"
       THEN Refused("Argument must be a kerning sequence.")
       ELSE TextCall(capy_text_cmd_TJ(text, objs[TheSequence]))

(***************************************************************************)
(* Transition.                                                             *)
(***************************************************************************)
Transition_init(tr) ==
    /\ CanCall /\ ~objs[tr].live
    /\ LET r == capy_transition_new
       IN objs' = [objs EXCEPT ![tr] = r.obj] /\ Outcome(check_error(r.ec))
    /\ UNCHANGED <<dc, text, gen, file, dests, outl, frames, handles>>

TransitionCall(tr, r) ==
    /\ objs' = [objs EXCEPT ![tr] = r.obj]
    /\ Outcome(check_error(r.ec))
    /\ UNCHANGED <<dc, text, gen, file, dests, outl, frames, handles>>

\* What a program passes as S: a member of TransitionType, given by its
\* value, or something else.
TransitionTypes ==
    {[class |-> "TransitionType", value |-> v] : v \in {0, 1, 11}}
        \cup {[class |-> "str", value |-> 0]}

set_S(tr, S) ==
    /\ CanCall /\ objs[tr].live
    /\ IF S.class # "TransitionType"
       THEN Refused("Argument is not a transition type.")
       ELSE TransitionCall(tr, capy_transition_set_S(objs[tr], S.value))

Durations == {1, 2}

set_D(tr, d) ==
    /\ CanCall /\ objs[tr].live
    /\ TransitionCall(tr, capy_transition_set_D(objs[tr], d))

int(B) == IF B THEN 1 ELSE 0

\* set_B passes int(B) to capy_transition_set_S.
set_B(tr, B) ==
    /\ CanCall /\ objs[tr].live
    /\ TransitionCall(tr, capy_transition_set_S(objs[tr], int(B)))

(***************************************************************************)
(* Generator: write and the generator with-block.                          *)
(***************************************************************************)
\* write with its return code ignored.
write_unchecked ==
    /\ CanCall
    /\ LET r == capy_generator_write(gen, file)
       IN /\ gen' = r.gen
          /\ file' = r.file
          /\ Outcome(NoExc)
    /\ UNCHANGED <<dc, text, dests, outl, frames, handles, objs>>

write ==
    /\ CanCall
    /\ LET r == capy_generator_write(gen, file)
       IN /\ gen' = r.gen
          /\ file' = r.file
          /\ Outcome(check_error(r.ec))
    /\ UNCHANGED <<dc, text, dests, outl, frames, handles, objs>>

Generator_enter ==
    /\ CanCall /\ frames = <<>> /\ ~gen.consumed
    /\ frames' = Append(frames, Token("gen", "g", 0))
    /\ UNCHANGED <<dc, text, gen, file, dests, outl, exc, unwinding, handles, objs>>

\* An __exit__ that writes inside try/except and drops the error.
Generator_exit_quiet ==
    /\ frames # <<>> /\ Top.kind = "gen"
    /\ IF ~unwinding
       THEN LET r == capy_generator_write(gen, file)
            IN /\ gen' = r.gen
               /\ file' = r.file
               /\ ExitOutcome(NoExc)
       ELSE /\ ExitOutcome(NoExc)
            /\ UNCHANGED <<gen, file>>
    /\ frames' = Pop
    /\ UNCHANGED <<dc, text, dests, outl, handles, objs>>

\* An __exit__ that leaves the block without writing.
Generator_exit_no_write ==
    /\ frames # <<>> /\ Top.kind = "gen"
    /\ ExitOutcome(NoExc)
    /\ frames' = Pop
    /\ UNCHANGED <<dc, text, gen, file, dests, outl, handles, objs>>

\* An __exit__ that writes whether or not the body raised.
Generator_exit_always_write ==
    /\ frames # <<>> /\ Top.kind = "gen"
    /\ LET r == capy_generator_write(gen, file)
       IN /\ gen' = r.gen
          /\ file' = r.file
          /\ ExitOutcome(check_error(r.ec))
    /\ frames' = Pop
    /\ UNCHANGED <<dc, text, dests, outl, handles, objs>>

\* exc_type is None: self.write(); otherwise return False.
Generator_exit ==
    /\ frames # <<>> /\ Top.kind = "gen"
    /\ IF ~unwinding
       THEN LET r == capy_generator_write(gen, file)
            IN /\ gen' = r.gen
               /\ file' = r.file
               /\ ExitOutcome(check_error(r.ec))
       ELSE /\ ExitOutcome(NoExc)
            /\ UNCHANGED <<gen, file>>
    /\ frames' = Pop
    /\ UNCHANGED <<dc, text, dests, outl, handles, objs>>

(***************************************************************************)
(* Destination and Outline.                                                *)
(***************************************************************************)
PageNumbers == 0..MaxPages

Destination_init(d) ==
    /\ CanCall /\ ~dests[d].live
    /\ dests' = [dests EXCEPT ![d] = [FreshDest EXCEPT !.live = TRUE]]
    /\ Outcome(NoExc)
    /\ UNCHANGED <<dc, text, gen, file, outl, frames, handles, objs>>

\* set_page_fit counting pages from one.
set_page_fit_one_based(d, page_num) ==
    /\ CanCall /\ dests[d].live
    /\ LET r == capy_destination_set_page_fit(dests[d], page_num + 1)
       IN dests' = [dests EXCEPT ![d] = r.dest] /\ Outcome(check_error(r.ec))
    /\ UNCHANGED <<dc, text, gen, file, outl, frames, handles, objs>>

set_page_fit(d, page_num) ==
    /\ CanCall /\ dests[d].live
    /\ LET r == capy_destination_set_page_fit(dests[d], page_num)
       IN dests' = [dests EXCEPT ![d] = r.dest] /\ Outcome(check_error(r.ec))
    /\ UNCHANGED <<dc, text, gen, file, outl, frames, handles, objs>>

set_page_xyz(d, page_number) ==
    /\ CanCall /\ dests[d].live
    /\ LET r == capy_destination_set_page_xyz(dests[d], page_number)
       IN dests' = [dests EXCEPT ![d] = r.dest] /\ Outcome(check_error(r.ec))
    /\ UNCHANGED <<dc, text, gen, file, outl, frames, handles, objs>>

Outline_init(o) ==
    /\ CanCall /\ ~outl[o].live /\ ~outl[o].used
    /\ outl' = [outl EXCEPT ![o] = [FreshOutline EXCEPT !.live = TRUE]]
    /\ Outcome(NoExc)
    /\ UNCHANGED <<dc, text, gen, file, dests, frames, handles, objs>>

set_destination(o, d) ==
    /\ CanCall /\ outl[o].live /\ dests[d].live
    /\ LET r == capy_outline_set_destination(outl[o], dests[d])
       IN outl' = [outl EXCEPT ![o] = r.outline] /\ Outcome(check_error(r.ec))
    /\ UNCHANGED <<dc, text, gen, file, dests, frames, handles, objs>>

\* The argument is any value of the program: an id some call returned, or
\* an OutlineId the program built itself.
OutlineParentArgs ==
    {NoHandle, Handle("StructureItemId", 0)}
        \cup {Handle("OutlineId", k) : k \in 0..Cardinality(OutlIds)}

set_parent(o, parent) ==
    /\ CanCall /\ outl[o].live
    /\ IF parent.kind # "OutlineId"
       THEN /\ Outcome("Argument must be a parent id.")
            /\ UNCHANGED outl
       ELSE LET r == capy_outline_set_parent(outl[o], parent)
            IN outl' = [outl EXCEPT ![o] = r.outline] /\ Outcome(check_error(r.ec))
    /\ UNCHANGED <<dc, text, gen, file, dests, frames, handles, objs>>

\* Each Outline object is handed over once.
add_outline(o) ==
    /\ CanCall /\ outl[o].live
    /\ LET r == capy_generator_add_outline(gen, outl[o])
       IN /\ gen' = r.gen /\ Outcome(check_error(r.ec))
          /\ Returns(check_error(r.ec), Handle("OutlineId", r.id))
    /\ outl' = [outl EXCEPT ![o] = [FreshOutline EXCEPT !.used = TRUE]]
    /\ UNCHANGED <<dc, text, file, dests, frames, objs>>

(***************************************************************************)
(* Initial state: a Generator has been constructed, nothing else exists.   *)
(***************************************************************************)
Init ==
    /\ dc = [c \in CtxIds |-> FreshDc]
    /\ text = FreshText
    /\ gen = FreshGen
    /\ file = NoFile
    /\ dests = [d \in DestIds |-> FreshDest]
    /\ outl = [o \in OutlIds |-> FreshOutline]
    /\ frames = <<>>
    /\ exc = NoExc
    /\ unwinding = FALSE
    /\ handles = {}
    /\ objs = [x \in ObjIds |-> FreshObj]

(***************************************************************************)
(* Spec: the graphics-state stack.  Path and state operators on page and   *)
(* resource contexts, push_gstate blocks, page blocks, registration.       *)
(***************************************************************************)
DrawCtx == {"page1", "form1"}
Widths == {-1, 1}

Next ==
    \/ \E c \in DrawCtx : page_draw_context(c)
    \/ \E c \in DrawCtx : FormXObjectDrawContext_init(c)
    \/ \E c \in DrawCtx : cmd_q(c)
    \/ \E c \in DrawCtx : cmd_Q(c)
    \/ \E c \in DrawCtx, w \in Widths : cmd_w(c, w)
    \/ \E c \in DrawCtx, as_with \in BOOLEAN : push_gstate(c, as_with)
    \/ StateContextManager_exit
    \/ \E c \in DrawCtx : DrawContext_enter(c)
    \/ DrawContext_exit
    \/ \E c \in DrawCtx : add_page(c)
    \/ \E c \in DrawCtx : add_form_xobject(c)
    \/ Catch

Spec == Init /\ [][Next]_vars

(***************************************************************************)
(* Properties of the graphics-state stack, checked under Spec.             *)
(***************************************************************************)
NegativeWidthRejected ==
    \A c \in CtxIds : \A w \in Widths :
        (w < 0 /\ cmd_w(c, w)) =>
            /\ exc' = "Negative line width."
            /\ unwinding'
            /\ dc' = dc
            /\ gen' = gen

StillUsable ==
    \A c \in CtxIds :
        (exc = "Negative line width." /\ ~unwinding /\ Open(c) /\ Room(1)) =>
            /\ ENABLED cmd_w(c, 1)
            /\ ENABLED cmd_q(c)

UsedAfterFailure ==
    \A c \in CtxIds :
        (exc = "Negative line width." /\ cmd_w(c, 1)) =>
            /\ exc' = NoExc
            /\ dc'[c].ops = Append(dc[c].ops, "w")

\* C2: cmd_w with a negative width raises 'Negative line width.' at the
\* call itself and appends nothing: every buffer, with the operators it
\* already holds, is as it was.  The failure does not stick: once it has
\* been caught the context accepts further operators, which are appended
\* after the earlier ones.
C2_NegativeLineWidth ==
    /\ [][NegativeWidthRejected]_vars
    /\ []StillUsable
    /\ [][UsedAfterFailure]_vars

\* A context that already held an operator has been refused a negative
\* width, and the exception is propagating.
C2_Witness ==
    \E c \in CtxIds :
        /\ exc = "Negative line width." /\ unwinding
        /\ Open(c) /\ dc[c].ops = <<"w">>

UnderflowRejected ==
    \A c \in CtxIds :
        (dc[c].q = 0 /\ cmd_Q(c)) =>
            /\ exc' = "UnbalancedState"
            /\ unwinding'
            /\ dc' = dc

\* C4: cmd_Q on a context whose graphics-state depth is 0 fails with
\* UnbalancedState and leaves the depth and the buffer unchanged; the depth
\* of no context is ever negative.
C4_RestoreUnderflow ==
    /\ [](\A c \in CtxIds : dc[c].q >= 0)
    /\ [][UnderflowRejected]_vars

\* A Q has just been refused on an open context at depth 0 that holds
\* a balanced q Q pair.
C4_Witness ==
    \E c \in CtxIds :
        /\ exc = "UnbalancedState" /\ unwinding
        /\ Open(c) /\ dc[c].q = 0 /\ dc[c].ops = <<"q", "Q">>

GstateEntry ==
    \A c \in CtxIds :
        push_gstate(c, TRUE) =>
            /\ dc'[c].ops = Append(dc[c].ops, "q")
            /\ dc'[c].q = dc[c].q + 1
            /\ frames' = Append(frames, Token("state", c, dc[c].q))

GstateExit ==
    (StateContextManager_exit /\ dc[Top.obj].q >= 1) =>
        /\ dc'[Top.obj].ops = Append(dc[Top.obj].ops, "Q")
        /\ dc'[Top.obj].q = dc[Top.obj].q - 1
        /\ frames' = Pop
        /\ unwinding => (unwinding' /\ exc' = exc)

GstateBalanced ==
    (StateContextManager_exit /\ dc[Top.obj].q = Top.base + 1) =>
        dc'[Top.obj].q = Top.base

RegCtx == {"page1", "form1", "pattern1", "tgroup1"}

NextReg ==
    \/ \E c \in RegCtx : page_draw_context(c)
    \/ \E c \in RegCtx : FormXObjectDrawContext_init(c)
    \/ \E c \in RegCtx : create_color_pattern_context(c)
    \/ \E c \in RegCtx : TransparencyGroupDrawContext_init(c)
    \/ \E c \in RegCtx : cmd_q(c)
    \/ \E c \in RegCtx : cmd_Q(c)
    \/ \E c \in RegCtx : add_page(c)
    \/ \E c \in RegCtx : add_form_xobject(c)
    \/ \E c \in RegCtx : add_color_pattern(c)
    \/ \E c \in RegCtx : add_transparency_group(c)
    \/ Catch

SpecReg == Init /\ [][NextReg]_vars

Registration(c) ==
    \/ add_page(c)
    \/ add_form_xobject(c)
    \/ add_color_pattern(c)
    \/ add_transparency_group(c)

RegisteredAtDepthZero ==
    \A c \in CtxIds :
        (Registration(c) /\ dc[c].q = 0 /\ dc[c].m = 0 /\ ~gen.consumed) =>
            /\ exc' = NoExc
            /\ dc'[c].state = "added"
            /\ IF c \in PageCtx
               THEN gen'.pages = Append(gen.pages, dc[c].ops)
               ELSE gen'.res[KindOf(c)] = Append(gen.res[KindOf(c)], dc[c].ops)

RefusedAtDepth ==
    \A c \in CtxIds :
        (Registration(c) /\ dc[c].q # 0) =>
            /\ exc' = "UnbalancedState"
            /\ unwinding'
            /\ gen' = gen
            /\ dc' = dc

\* C3: after any sequence of cmd_q/cmd_Q calls in which no Q underflows,
\* registering the context (add_page, add_form_xobject, add_color_pattern,
\* add_transparency_group) succeeds and stores its buffer when the
\* graphics-state depth is 0, and fails with UnbalancedState, registering
\* nothing and leaving the context as it was, when the depth is not 0.
C3_RegistrationNeedsBalance ==
    [][RegisteredAtDepthZero /\ RefusedAtDepth]_vars

\* A balanced page has been registered and a registration has just been
\* refused: every open context is at nonzero depth, so the refusal was
\* not an underflowing Q.
C3_Witness ==
    /\ unwinding /\ exc = "UnbalancedState"
    /\ \E i \in 1..Len(gen.pages) : gen.pages[i] = <<"q", "Q">>
    /\ \E c \in CtxIds : Open(c)
    /\ \A c \in CtxIds : Open(c) => dc[c].q > 0

(***************************************************************************)
(* SpecMarked: the marked-content stack of draw contexts and of the Text   *)
(* object, marked-content blocks, text blocks, registration.               *)
(***************************************************************************)
MarkedCtx == {"page1", "form1"}

NextMarked ==
    \/ \E c \in MarkedCtx : page_draw_context(c)
    \/ \E c \in MarkedCtx : FormXObjectDrawContext_init(c)
    \/ \E c \in MarkedCtx, as_with \in BOOLEAN : cmd_BMC(c, as_with)
    \/ \E c \in MarkedCtx, as_with \in BOOLEAN : cmd_BDC(c, as_with)
    \/ \E c \in MarkedCtx, as_with \in BOOLEAN : cmd_BDC_builtin(c, as_with)
    \/ \E c \in MarkedCtx : cmd_EMC(c)
    \/ MarkedContextManager_exit
    \/ \E c \in MarkedCtx, as_with \in BOOLEAN : text_new(c, as_with)
    \/ \E as_with \in BOOLEAN : Text_cmd_BDC_builtin(as_with)
    \/ Text_cmd_EMC
    \/ Text_cmd_Td
    \/ \E c \in MarkedCtx : render_text_obj(c)
    \/ Text_exit
    \/ Text_del
    \/ \E c \in MarkedCtx : DrawContext_enter(c)
    \/ DrawContext_exit
    \/ \E c \in MarkedCtx : add_page(c)
    \/ \E c \in MarkedCtx : add_form_xobject(c)
    \/ Catch

SpecMarked == Init /\ [][NextMarked]_vars

EndUnderflowRejected ==
    \A c \in CtxIds :
        (dc[c].m = 0 /\ cmd_EMC(c)) =>
            /\ exc' # NoExc
            /\ unwinding'
            /\ dc' = dc
            /\ text' = text

TextEndUnderflowRejected ==
    (text.m = 0 /\ Text_cmd_EMC) =>
        /\ exc' # NoExc
        /\ unwinding'
        /\ text' = text
        /\ dc' = dc

RefusedWhileMarked ==
    \A c \in CtxIds :
        (Registration(c) /\ dc[c].m # 0) =>
            /\ exc' = "UnbalancedState"
            /\ unwinding'
            /\ gen' = gen
            /\ dc' = dc

PageBlockRefusedWhileMarked ==
    (DrawContext_exit /\ dc[Top.obj].generator # None /\ dc[Top.obj].m # 0) =>
        /\ exc' = "UnbalancedState"
        /\ unwinding'
        /\ gen' = gen

\* C5: cmd_EMC on a context, or on a Text object, whose marked-content
\* depth is 0 fails and changes nothing; a context whose marked-content
\* depth is not 0 cannot be registered: the registration, explicit or by
\* the exit of the page block, fails with UnbalancedState and adds nothing
\* to the document.
C5_MarkedContentBalance ==
    [][/\ EndUnderflowRejected
       /\ TextEndUnderflowRejected
       /\ RefusedWhileMarked
       /\ PageBlockRefusedWhileMarked]_vars

\* A registration has just been refused with marked content open: every
\* open context has a nonzero marked-content depth and there is no Text
\* object, so the refusal was not an underflowing EMC.
C5_Witness ==
    /\ unwinding /\ exc = "UnbalancedState"
    /\ frames = <<>> /\ text.state = "none"
    /\ \E c \in CtxIds : Open(c)
    /\ \A c \in CtxIds : Open(c) => dc[c].m > 0

BeginReturnsToken ==
    \A c \in CtxIds :
        (cmd_BDC(c, TRUE) \/ cmd_BDC_builtin(c, TRUE) \/ cmd_BMC(c, TRUE)) =>
            (exc' = NoExc /\ frames' = Append(frames, Token("marked", c, 0)))

TextBeginReturnsToken ==
    Text_cmd_BDC_builtin(TRUE) =>
        (exc' = NoExc /\ frames' = Append(frames, Token("marked", "text", 0)))

ReleaseEmitsEnd ==
    (MarkedContextManager_exit /\ Top.obj # "text" /\ dc[Top.obj].m > 0) =>
        /\ dc'[Top.obj].ops = Append(dc[Top.obj].ops, "EMC")
        /\ text' = text

TextReleaseEmitsEnd ==
    (MarkedContextManager_exit /\ Top.obj = "text" /\ text.m > 0) =>
        /\ text'.ops = Append(text.ops, "EMC")
        /\ dc' = dc

\* C7: every marked-content begin (cmd_BDC with an optional content group,
\* cmd_BDC_builtin, cmd_BMC, Text.cmd_BDC_builtin) used as the subject of a
\* with-statement returns a token, and the release of the token emits
\* exactly one EMC on the buffer the begin was emitted on.
C7_EveryBeginReturnsToken ==
    [][/\ BeginReturnsToken
       /\ TextBeginReturnsToken
       /\ ReleaseEmitsEnd
       /\ TextReleaseEmitsEnd]_vars

(***************************************************************************)
(* SpecDoc: the document.  Pages, fonts and outline items, write() called  *)
(* explicitly and by the exit of the generator block.                      *)
(***************************************************************************)
DocOutl == {"o1"}

NextDoc ==
    \/ \E c \in PageCtx : page_draw_context(c)
    \/ \E c \in PageCtx : cmd_re(c)
    \/ \E c \in PageCtx : DrawContext_enter(c)
    \/ DrawContext_exit
    \/ \E c \in PageCtx : add_page(c)
    \/ load_font
    \/ \E o \in DocOutl : Outline_init(o)
    \/ \E o \in DocOutl : add_outline(o)
    \/ write
    \/ Generator_enter
    \/ Generator_exit
    \/ Catch

SpecDoc == Init /\ [][NextDoc]_vars

\* write() as the program reaches it: called, or run by the block exit.
WriteStep == write \/ (Generator_exit /\ ~unwinding)

NoPagesRejected ==
    (WriteStep /\ Len(gen.pages) = 0) =>
        /\ exc' = "No pages defined."
        /\ unwinding'
        /\ file' = NoFile

\* C1: write() on a Generator to which no page was ever added fails with
\* 'No pages defined.' and leaves no output file, whatever else was
\* registered and whatever draw contexts were created and not added.
C1_NoPagesDefined ==
    /\ [][NoPagesRejected]_vars
    /\ [](Len(gen.pages) = 0 => file = NoFile)

\* write() has just failed on a document that holds a font and an outline
\* item but no page, while a page context with content is still open.
C1_Witness ==
    /\ unwinding /\ exc = "No pages defined."
    /\ gen.pages = <<>> /\ gen.fonts > 0 /\ gen.outlines # <<>>
    /\ \E c \in PageCtx : Open(c) /\ dc[c].ops # <<>>
    /\ file = NoFile

ConsumedByWrite == WriteStep => gen'.consumed

FrozenOnceConsumed == gen.consumed => (gen' = gen /\ file' = file)

LaterCallsRejected ==
    gen.consumed =>
        /\ WriteStep => (exc' # NoExc /\ unwinding')
        /\ load_font => (exc' # NoExc /\ unwinding')
        /\ \A c \in CtxIds :
               (add_page(c) \/ add_form_xobject(c)
                \/ add_color_pattern(c) \/ add_transparency_group(c)) =>
                   (exc' # NoExc /\ unwinding' /\ dc' = dc)
        /\ \A o \in OutlIds : add_outline(o) => (exc' # NoExc /\ unwinding')
        /\ (DrawContext_exit /\ dc[Top.obj].generator # None) =>
               (exc' # NoExc /\ unwinding' /\ dc'[Top.obj].ops = dc[Top.obj].ops)

NextDest ==
    \/ \E c \in PageCtx : page_draw_context(c)
    \/ \E c \in PageCtx : add_page(c)
    \/ \E c \in PageCtx : DrawContextBase_del(c)
    \/ \E d \in DestIds : Destination_init(d)
    \/ \E d \in DestIds, n \in PageNumbers : set_page_fit(d, n)
    \/ \E d \in DestIds, n \in PageNumbers : set_page_xyz(d, n)
    \/ \E o \in DocOutl : Outline_init(o)
    \/ \E o \in DocOutl, d \in DestIds : set_destination(o, d)
    \/ \E o \in DocOutl : add_outline(o)
    \/ write
    \/ Catch

SpecDest == Init /\ [][NextDest]_vars

DestinationKeepsPage ==
    \A d \in DestIds : \A n \in PageNumbers :
        (set_page_fit(d, n) \/ set_page_xyz(d, n)) =>
            /\ exc' = NoExc
            /\ dests'[d].set /\ dests'[d].page = n

OutlineKeepsDestination ==
    \A o \in OutlIds : \A d \in DestIds :
        set_destination(o, d) => (exc' = NoExc /\ outl'[o].dest = dests[d])

OutlineRecorded ==
    \A o \in OutlIds :
        (add_outline(o) /\ ~gen.consumed) =>
            /\ exc' = NoExc
            /\ Len(gen'.outlines) = Len(gen.outlines) + 1
            /\ gen'.outlines[Len(gen'.outlines)].dest = outl[o].dest

AllResolvable ==
    \A i \in 1..Len(gen.outlines) :
        gen.outlines[i].dest.set => gen.outlines[i].dest.page < Len(gen.pages)

ResolvedAtWrite ==
    (WriteStep /\ ~gen.consumed /\ Len(gen.pages) > 0 /\ AllResolvable) =>
        /\ exc' = NoExc
        /\ file'.exists
        /\ file'.pages = gen.pages
        /\ \A i \in 1..Len(gen.outlines) :
               gen.outlines[i].dest.set =>
                   file'.outlines[i] = gen.outlines[i].dest.page + 1

NeverFailsEarly ==
    /\ \A d \in DestIds : Destination_init(d) => exc' = NoExc
    /\ \A d \in DestIds : \A n \in PageNumbers :
           (set_page_fit(d, n) \/ set_page_xyz(d, n)) => exc' = NoExc
    /\ \A o \in OutlIds : \A d \in DestIds : set_destination(o, d) => exc' = NoExc
    /\ \A o \in OutlIds : (add_outline(o) /\ ~gen.consumed) => exc' = NoExc

DanglingRejected ==
    (WriteStep /\ ~AllResolvable) =>
        /\ exc' # NoExc
        /\ unwinding'
        /\ file' = file

NoDanglingInFile ==
    file.exists =>
        \A i \in 1..Len(file.outlines) : file.outlines[i] <= Len(file.pages)

FileOnlyBySuccessfulWrite ==
    /\ (file' # file) => (WriteStep /\ exc' = NoExc /\ ~file.exists)
    /\ (WriteStep /\ exc' = NoExc) => file'.exists

NoFileWhileAuthoring ==
    /\ ~gen.consumed => file = NoFile
    /\ file.exists => gen.consumed

AuthoringLeavesNoFile ==
    \A c \in CtxIds : \A o \in OutlIds :
        ((add_page(c) \/ DrawContext_exit \/ load_font \/ add_outline(o))
         /\ exc' = NoExc) =>
            (file = NoFile /\ file' = NoFile)

BlockExitWritesOnce ==
    (Generator_exit /\ ~unwinding /\ ~gen.consumed
     /\ Len(gen.pages) > 0 /\ AllResolvable) =>
        /\ exc' = NoExc /\ ~unwinding'
        /\ gen'.consumed
        /\ file'.exists /\ file'.pages = gen.pages

\* C11: the output file exists if and only if write() has been invoked
\* and has succeeded.  The file appears only in a successful write step
\* and every successful write step leaves it present; while the document
\* is not consumed, and in every successful page, font or outline
\* registration, there is no file.  The exit of a generator block whose
\* body did not raise, on a document that has a page and was not written
\* in the body, performs the one write: it succeeds and the file is
\* present afterwards.
C11_FileIffWritten ==
    /\ [][FileOnlyBySuccessfulWrite /\ AuthoringLeavesNoFile
          /\ BlockExitWritesOnce]_vars
    /\ []NoFileWhileAuthoring

\* The generator block has been left without an exception and the file
\* holds the two pages, the second of them empty.
C11_Witness ==
    /\ frames = <<>> /\ ~unwinding /\ exc = NoExc
    /\ gen.consumed
    /\ file.exists /\ Len(file.pages) = 2 /\ file.pages[2] = <<>>

(***************************************************************************)
(* SpecPage: page blocks.  Page contexts are created, drawn on and added,  *)
(* explicitly or by the exit of their block; the document is written.      *)
(***************************************************************************)
NextPage ==
    \/ \E c \in PageCtx : page_draw_context(c)
    \/ \E c \in PageCtx : cmd_re(c)
    \/ \E c \in PageCtx, w \in Widths : cmd_w(c, w)
    \/ \E c \in PageCtx : DrawContext_enter(c)
    \/ DrawContext_exit
    \/ \E c \in PageCtx : add_page(c)
    \/ write
    \/ Catch

SpecPage == Init /\ [][NextPage]_vars

(***************************************************************************)
(* SpecDrop: page contexts that are dropped.  Contexts are created, drawn  *)
(* on, added or dropped without being added; the document is written.      *)
(***************************************************************************)
BlockAppendsPage ==
    (DrawContext_exit /\ dc[Top.obj].generator # None
     /\ Balanced(dc[Top.obj]) /\ ~gen.consumed) =>
        /\ gen'.pages = Append(gen.pages, dc[Top.obj].ops)
        /\ frames' = Pop

OperatorsInOrder ==
    \A c \in CtxIds :
        /\ cmd_re(c) => dc'[c].ops = Append(dc[c].ops, "re")
        /\ \A w \in Widths :
               (cmd_w(c, w) /\ w >= 0) => dc'[c].ops = Append(dc[c].ops, "w")

PagesOnlyByAddPage ==
    (gen'.pages # gen.pages) =>
        \E c \in PageCtx :
            /\ add_page(c) \/ (DrawContext_exit /\ Top.obj = c)
            /\ gen'.pages = Append(gen.pages, dc[c].ops)

WriteKeepsPages ==
    (WriteStep /\ exc' = NoExc) => file'.pages = gen.pages

NextDrop ==
    \/ \E c \in PageCtx : page_draw_context(c)
    \/ \E c \in PageCtx : cmd_re(c)
    \/ \E c \in PageCtx, w \in Widths : cmd_w(c, w)
    \/ \E c \in PageCtx : add_page(c)
    \/ \E c \in PageCtx : DrawContextBase_del(c)
    \/ write
    \/ Catch

SpecDrop == Init /\ [][NextDrop]_vars

(***************************************************************************)
(* Properties of dropped page contexts, checked under SpecDrop.            *)
(***************************************************************************)
DropIsSilent ==
    \A c \in CtxIds :
        DrawContextBase_del(c) =>
            /\ gen' = gen /\ file' = file
            /\ exc' = exc /\ unwinding' = unwinding
            /\ dc'[c] = FreshDc

DropNeverRefused ==
    \A c \in PageCtx :
        (Open(c) /\ ~unwinding /\ frames = <<>> /\ text.state = "none") =>
            ENABLED DrawContextBase_del(c)

WriteUnaffectedByDrops ==
    (write /\ ~gen.consumed /\ Len(gen.pages) > 0 /\ AllResolvable) =>
        /\ exc' = NoExc
        /\ file'.exists /\ file'.pages = gen.pages

WriteFailsWithoutPages ==
    (write /\ Len(gen.pages) = 0) =>
        (exc' = "No pages defined." /\ unwinding' /\ file' = NoFile)

\* C13: a page draw context that is created, drawn on (a failing
\* operation included) and dropped without being added contributes no
\* page and no content to the document, and dropping it raises nothing:
\* the drop is always possible and changes neither the document, the file
\* nor the exception state.  Pages come from add_page only, so later
\* write() succeeds with exactly the added pages, and fails with 'No pages
\* defined.' when there are none.
C13_DroppedContext ==
    /\ [][/\ DropIsSilent
          /\ PagesOnlyByAddPage
          /\ WriteUnaffectedByDrops
          /\ WriteFailsWithoutPages]_vars
    /\ []DropNeverRefused

\* After a refused negative line width was caught, every context has been
\* dropped, and the document has no page.
C13_Witness ==
    /\ exc = "Negative line width." /\ ~unwinding
    /\ \A c \in CtxIds : dc[c].state = "none"
    /\ gen.pages = <<>> /\ ~gen.consumed

(***************************************************************************)
(* SpecStruct: the structure tree and the outline tree of a document with  *)
(* one page.                                                               *)
(***************************************************************************)
TreePage == {"page1"}

NextStruct ==
    \/ \E st \in StructTypes, p \in ParentArgs, origin \in Origins :
           add_structure_item(st, p, origin)
    \/ \E c \in TreePage : page_draw_context(c)
    \/ \E c \in TreePage : add_page(c)
    \/ \E o \in OutlIds : Outline_init(o)
    \/ \E o \in OutlIds, p \in OutlineParentArgs : set_parent(o, p)
    \/ \E o \in OutlIds : add_outline(o)
    \/ write
    \/ Catch

SpecStruct == Init /\ [][NextStruct]_vars

\* C14: add_structure_item with a parent that is not a StructureItemId
\* previously returned by the same Generator, be it an id that was never
\* registered or a StructureItemId returned by a different Generator,
\* fails with UnknownParent at that call and adds no structure item.
C14_UnknownParentRejected ==
    [][\A p \in ParentArgs : \A origin \in Origins :
           (add_structure_item("StructureType", p, origin)
            /\ ~gen.consumed /\ p.kind = "StructureItemId"
            /\ (origin = "other" \/ p \notin handles)) =>
               /\ exc' = "UnknownParent"
               /\ unwinding'
               /\ gen' = gen /\ handles' = handles]_vars

(***************************************************************************)
(* The parent edges of structure items and of outline items.               *)
(***************************************************************************)
\* Every parent was registered strictly earlier (ids count from 0).
EarlierParents(parents) ==
    \A i \in 1..Len(parents) :
        parents[i] = NoParent \/ parents[i] \in 0..(i - 2)

StructureForest == EarlierParents(gen.items) /\ IsForest(gen.items)

\* A parent whose id this Generator never returned is refused; a registered
\* item hangs under the item whose id was given.  The call acts on the id
\* alone, so the calls with a parent of any origin are those with a parent
\* of origin "other".
ParentRecorded ==
    \A p \in ParentArgs :
        add_structure_item("StructureType", p, "other") =>
            IF p.kind = "StructureItemId" /\ p \notin handles
            THEN /\ exc' = (IF gen.consumed THEN "DocumentConsumed" ELSE "UnknownParent")
                 /\ unwinding'
                 /\ gen' = gen /\ handles' = handles
            ELSE exc' = NoExc =>
                    gen'.items =
                        Append(gen.items, IF p = NoHandle THEN NoParent ELSE p.id)

\* Neither set_parent nor add_outline looks the parent up.
OutlineParentUnchecked ==
    /\ \A o \in OutlIds : \A p \in OutlineParentArgs :
           (p.kind = "OutlineId" /\ set_parent(o, p)) =>
               exc' = NoExc /\ outl'[o].parent = p.id
    /\ \A o \in OutlIds :
           (~gen.consumed /\ add_outline(o)) =>
               /\ exc' = NoExc
               /\ gen'.outlines[Len(gen'.outlines)].parent = outl[o].parent

\* write refuses a document whose outline parents are not a forest.
OutlineForestAtWrite ==
    (write /\ ~IsForest(OutlineParents(gen))) =>
        exc' # NoExc /\ unwinding' /\ file' = file

OutlineForestInFile == file.exists => IsForest(file.parents)

\* C15 as stated: in every reachable state the parent edges of registered
\* structure items form a forest, every item's parent registered strictly
\* earlier, and the same holds for registered outline items whose parent
\* was given through Outline.set_parent before add_outline.
C15_ForestEverywhere ==
    /\ StructureForest
    /\ EarlierParents(OutlineParents(gen)) /\ IsForest(OutlineParents(gen))

\* C15 amended: in every reachable state the parent edges of registered
\* structure items form a forest, every item's parent registered strictly
\* earlier under the id that was given; outline parents are taken as given
\* by set_parent and add_outline, and form a forest in every written file,
\* because write refuses the document otherwise.
C15_ForestOfItemsAndWrittenOutlines ==
    /\ []StructureForest
    /\ [][ParentRecorded]_vars
    /\ [][OutlineParentUnchecked]_vars
    /\ [][OutlineForestAtWrite]_vars
    /\ []OutlineForestInFile

\* A written file whose second outline hangs under the first, of a document
\* whose structure items form a chain.
C15_Witness ==
    /\ file.exists /\ file.parents = <<NoParent, 0>>
    /\ gen.items = <<NoParent, 0>>

\* A registered outline item whose parent does not exist.
C15_DanglingOutline ==
    /\ Len(gen.outlines) = 1 /\ gen.outlines[1].parent = 1
    /\ ~gen.consumed

(***************************************************************************)
(* SpecHandles: the ids returned by the registration calls of one          *)
(* Generator.                                                              *)
(***************************************************************************)
ResourceCtx == FormCtx \cup PatternCtx

NextHandles ==
    \/ \E c \in ResourceCtx : FormXObjectDrawContext_init(c)
    \/ \E c \in ResourceCtx : create_color_pattern_context(c)
    \/ \E c \in ResourceCtx : add_form_xobject(c)
    \/ \E c \in ResourceCtx : add_color_pattern(c)
    \/ load_font
    \/ \E p \in ParentArgs : add_structure_item("StructureType", p, "this")
    \/ \E o \in OutlIds : Outline_init(o)
    \/ \E o \in OutlIds : add_outline(o)
    \/ write
    \/ Catch

SpecHandles == Init /\ [][NextHandles]_vars

\* A registration call of the model.
RegistrationCall ==
    \/ \E c \in ResourceCtx : add_form_xobject(c) \/ add_color_pattern(c)
    \/ load_font
    \/ \E p \in ParentArgs : add_structure_item("StructureType", p, "this")
    \/ \E o \in OutlIds : add_outline(o)

\* A call that returns hands out one id that no earlier call returned.
ReturnsFreshHandle ==
    (RegistrationCall /\ exc' = NoExc) =>
        \E h \in handles' : h \notin handles /\ handles' = handles \cup {h}

\* A call that raises returns nothing; no other step returns an id.
OnlyRegistrationReturns ==
    handles' # handles => (RegistrationCall /\ exc' = NoExc)

\* The ids returned for one kind count the registrations of that kind.
HandlesOfKind(kind) == {h \in handles : h.kind = kind}

OnePerRegistration ==
    /\ Cardinality(HandlesOfKind("FontId")) = gen.fonts
    /\ Cardinality(HandlesOfKind("StructureItemId")) = Len(gen.items)
    /\ Cardinality(HandlesOfKind("OutlineId")) = Len(gen.outlines)
    /\ Cardinality(HandlesOfKind("FormXObjectId")) = Len(gen.res["form"])
    /\ Cardinality(HandlesOfKind("PatternId")) = Len(gen.res["pattern"])

UseCtx == {"page1"}

NextUse ==
    \/ \E c \in UseCtx : page_draw_context(c)
    \/ \E c \in GroupCtx : TransparencyGroupDrawContext_init(c)
    \/ \E c \in GroupCtx : add_transparency_group(c)
    \/ add_image("RasterImage", "ImagePdfProperties")
    \/ add_graphics_state("GraphicsState")
    \/ add_type2_shading("Type2Shading")
    \/ \E c \in UseCtx, h \in IdArgs : draw_image(c, h)
    \/ \E c \in UseCtx, h \in IdArgs : cmd_Do(c, h)
    \/ \E c \in UseCtx, h \in IdArgs : cmd_sh(c, h)
    \/ \E c \in UseCtx, h \in IdArgs : cmd_gs(c, h)
    \/ Catch

SpecUse == Init /\ [][NextUse]_vars

\* The call raised and left every object as it was.
RaisedWithoutEffect ==
    /\ exc' # NoExc /\ unwinding'
    /\ dc' = dc /\ gen' = gen /\ handles' = handles

\* A call with an argument of another class is refused; a call with the
\* id of a registered resource of the right class appends the operator.
UseChecked(h, cls, op, c) ==
    IF h.kind # cls THEN RaisedWithoutEffect
    ELSE h \in handles => (exc' = NoExc /\ dc'[c].ops = Append(dc[c].ops, op))

WrongKindRejected ==
    \A c \in UseCtx : \A h \in IdArgs :
        /\ draw_image(c, h) => UseChecked(h, "ImageId", "Do image", c)
        /\ cmd_Do(c, h) => UseChecked(h, "TransparencyGroupId", "Do group", c)
        /\ cmd_sh(c, h) => UseChecked(h, "ShadingId", "sh", c)
        /\ cmd_gs(c, h) => UseChecked(h, "GraphicsStateId", "gs", c)

\* An operator in a content stream invokes a resource that was registered.
OnlyRegisteredInvoked ==
    \A c \in UseCtx : \A i \in 1..Len(dc[c].ops) :
        /\ dc[c].ops[i] = "Do image" => gen.made["ImageId"] > 0
        /\ dc[c].ops[i] = "sh" => gen.made["ShadingId"] > 0
        /\ dc[c].ops[i] = "gs" => gen.made["GraphicsStateId"] > 0
        /\ dc[c].ops[i] = "Do group" => Len(gen.res["tgroup"]) > 0

\* C17: a handle of the wrong kind passed to draw_image, cmd_sh, cmd_Do
\* or cmd_gs is rejected as a type error at that call and appends nothing
\* to the content stream; it is never a silent no-op and never invokes
\* the resource of another kind that has the same integer id.
C17_WrongKindRejected ==
    /\ [][WrongKindRejected]_vars
    /\ []OnlyRegisteredInvoked

\* An image and a shading both have id 0; the shading was painted once, and
\* the last call, refused for the class of its argument, appended nothing.
C17_Witness ==
    /\ exc = "ArgumentError" /\ unwinding
    /\ {Handle("ShadingId", 0), Handle("ImageId", 0)} \subseteq handles
    /\ dc["page1"].ops = <<"sh">>

(***************************************************************************)
(* SpecMesh: building triangle-mesh and patch-mesh shadings.               *)
(***************************************************************************)
Around(n) == {n - 1, n, n + 1}

Flags == {0, 1, 3}

NextMesh ==
    \/ \E s \in ShadeIds : Type4Shading_init(s)
    \/ \E s \in ShadeIds : Type6Shading_init(s)
    \/ \E s \in ShadeIds, coords \in Around(6), colors \in Around(3) :
           add_triangle(s, coords, colors)
    \/ \E s \in ShadeIds, coords \in Around(24), colors \in Around(4) :
           add_patch(s, coords, colors)
    \/ \E s \in ShadeIds, flag \in Flags, coords \in Around(16), colors \in Around(2) :
           Type6Shading_extend(s, flag, coords, colors)
    \/ Catch

SpecMesh == Init /\ [][NextMesh]_vars

\* The call returned and the shading has one more element.
ElementAdded(s, elem) ==
    exc' = NoExc /\ objs'[s].elems = Append(objs[s].elems, elem)

\* The call raised and no shading changed.
NothingAdded == exc' # NoExc /\ unwinding' /\ objs' = objs

TriangleSizes ==
    \A s \in ShadeIds : \A coords \in Around(6) : \A colors \in Around(3) :
        add_triangle(s, coords, colors) =>
            IF coords = 6 /\ colors = 3
            THEN ElementAdded(s, "triangle") ELSE NothingAdded

PatchSizes ==
    \A s \in ShadeIds : \A coords \in Around(24) : \A colors \in Around(4) :
        add_patch(s, coords, colors) =>
            IF coords = 24 /\ colors = 4
            THEN ElementAdded(s, "patch") ELSE NothingAdded

ExtensionSizes ==
    \A s \in ShadeIds : \A coords \in Around(16) : \A colors \in Around(2) :
        \A flag \in Flags :
            Type6Shading_extend(s, flag, coords, colors) =>
                IF coords = 16 /\ colors = 2 /\ flag # 0
                THEN ElementAdded(s, "extension") ELSE NothingAdded

\* C18: Type4Shading.add_triangle takes exactly 6 coordinates and 3
\* colors, Type6Shading.add_patch exactly 24 coordinates and 4 colors, and
\* Type6Shading.extend exactly 16 coordinates and 2 colors; a call with
\* other sizes fails and adds nothing to the shading.
C18_MeshElementSizes ==
    /\ [][TriangleSizes]_vars
    /\ [][PatchSizes]_vars
    /\ [][ExtensionSizes]_vars

\* A patch mesh holds a patch and an extension, and the last call, with a
\* wrong number of colors, was refused.
C18_Witness ==
    /\ \E s \in ShadeIds : objs[s].elems = <<"patch", "extension">>
    /\ exc = "Must have exactly 3 colors." /\ unwinding

(***************************************************************************)
(* SpecFunc: exponential functions and the stitching functions made of     *)
(* them.                                                                   *)
(***************************************************************************)
FunctionCounts == 1..MaxFuncs
BoundCounts == 0..(MaxFuncs - 1)

NextFunc ==
    \/ \E t \in {"Type2Function", "str"} : add_type2_function(t)
    \/ \E f \in FuncObjIds, n \in FunctionCounts, nb \in BoundCounts :
           Type3Function_init(f, n, nb)
    \/ \E f \in FuncObjIds : add_function(f)
    \/ write
    \/ Catch

SpecFunc == Init /\ [][NextFunc]_vars

\* The constructor accepts exactly the lists with one sub-function more
\* than bounds; a refused construction leaves no object and changes nothing.
StitchingChecked ==
    \A f \in FuncObjIds : \A n \in FunctionCounts : \A nb \in BoundCounts :
        Type3Function_init(f, n, nb) =>
            IF n = nb + 1
            THEN exc' = NoExc /\ objs'[f].live
                 /\ Len(objs'[f].elems) = n /\ objs'[f].bounds = nb
            ELSE /\ exc' = "InvalidArgument" /\ unwinding'
                 /\ objs' = objs /\ gen' = gen /\ handles' = handles

\* Every stitching function, built or registered, has one sub-function
\* more than bounds.
StitchingWellFormed ==
    /\ \A f \in FuncObjIds : objs[f].live => Len(objs[f].elems) = objs[f].bounds + 1
    /\ \A i \in 1..Len(gen.funcs) :
           gen.funcs[i].subs # 0 => gen.funcs[i].subs = gen.funcs[i].bounds + 1

\* C19: a Type 3 (stitching) function is accepted only when the number of
\* its sub-functions equals the number of bounds plus one; any other
\* combination fails with a validation error when the function is
\* constructed, and nothing is registered.
C19_StitchingCounts ==
    /\ [][StitchingChecked]_vars
    /\ []StitchingWellFormed

\* A stitching function of the two registered exponential functions with
\* one bound is registered, and the last construction was refused.
C19_Witness ==
    /\ Len(gen.funcs) = 3 /\ gen.funcs[3] = [subs |-> 2, bounds |-> 1]
    /\ exc = "InvalidArgument" /\ unwinding

(***************************************************************************)
(* SpecColor: stroke and nonstroke colors of a page, with tiling patterns. *)
(***************************************************************************)
NextColor ==
    \/ \E c \in UseCtx : page_draw_context(c)
    \/ \E c \in PatternCtx : create_color_pattern_context(c)
    \/ \E c \in PatternCtx : add_color_pattern(c)
    \/ \E col \in ColorIds : Color_init(col)
    \/ \E col \in ColorIds : set_rgb(col)
    \/ \E col \in ColorIds, p \in ColorArgs : set_pattern(col, p)
    \/ \E c \in UseCtx, color \in ColorArgs : set_stroke(c, color)
    \/ \E c \in UseCtx, color \in ColorArgs : set_nonstroke(c, color)
    \/ Catch

SpecColor == Init /\ [][NextColor]_vars

\* What the call with the program's Color does when that Color holds
\* pattern p: the result of the native call on it.
WithPatternColor(c, p, stroke) ==
    LET col == [objs[TheColor] EXCEPT !.elems = <<p>>]
    IN IF stroke THEN capy_dc_set_stroke(dc[c], gen, col)
       ELSE capy_dc_set_nonstroke(dc[c], gen, col)

SameAsWith(c, r) ==
    /\ dc' = [dc EXCEPT ![c] = r.dc]
    /\ exc' = check_error(r.ec)
    /\ gen' = gen /\ objs' = objs /\ handles' = handles

\* A PatternId has the effect of a Color holding that pattern, whether the
\* program passes the id or its own Color on which set_pattern was called.
PatternIdAsColor ==
    \A c \in UseCtx : \A p \in PatternArgs :
        /\ set_stroke(c, p) => SameAsWith(c, WithPatternColor(c, p, TRUE))
        /\ set_nonstroke(c, p) => SameAsWith(c, WithPatternColor(c, p, FALSE))
        /\ (objs[TheColor].elems = <<p>> /\ set_stroke(c, Handle("Color", 0))) =>
               SameAsWith(c, WithPatternColor(c, p, TRUE))
        /\ (objs[TheColor].elems = <<p>> /\ set_nonstroke(c, Handle("Color", 0))) =>
               SameAsWith(c, WithPatternColor(c, p, FALSE))

\* A registered pattern is painted with: the operator names it.
PatternPainted ==
    \A c \in UseCtx : \A p \in PatternArgs :
        /\ (p \in handles /\ set_stroke(c, p)) =>
               exc' = NoExc /\ Len(dc'[c].ops) = Len(dc[c].ops) + 1
               /\ dc'[c].ops[Len(dc'[c].ops)] = (IF p.id = 0 THEN "SCN P0" ELSE "SCN P1")
        /\ (p \in handles /\ set_nonstroke(c, p)) =>
               exc' = NoExc /\ Len(dc'[c].ops) = Len(dc[c].ops) + 1
               /\ dc'[c].ops[Len(dc'[c].ops)] = (IF p.id = 0 THEN "scn P0" ELSE "scn P1")

\* Any other argument raises and changes nothing.
OtherArgumentRefused ==
    \A c \in UseCtx : \A a \in ColorArgs :
        (a.kind \notin {"Color", "PatternId"} /\ (set_stroke(c, a) \/ set_nonstroke(c, a))) =>
            /\ exc' = "Argument must be a Color object." /\ unwinding'
            /\ dc' = dc /\ gen' = gen /\ objs' = objs

\* C20: set_stroke and set_nonstroke accept exactly a Color or a
\* PatternId; with a PatternId p the effect is that of the call with a
\* Color on which set_pattern(p) was called; any other argument raises an
\* error and leaves the draw context unchanged.
C20_ColorOrPattern ==
    /\ [][PatternIdAsColor]_vars
    /\ [][PatternPainted]_vars
    /\ [][OtherArgumentRefused]_vars

\* The page was given the same registered pattern as stroke color twice,
\* once as a PatternId and once through a Color, and the last call, with
\* an argument of another class, was refused.
C20_Witness ==
    /\ \E c \in UseCtx : dc[c].ops = <<"SCN P0", "SCN P0">>
    /\ objs[TheColor].elems = <<Handle("PatternId", 0)>>
    /\ exc = "Argument must be a Color object." /\ unwinding

(***************************************************************************)
(* SpecText: a text object of a page and a text sequence shown with TJ.    *)
(***************************************************************************)
Kerns == {200}

NextText ==
    \/ \E c \in UseCtx : page_draw_context(c)
    \/ \E c \in UseCtx : text_new(c, FALSE)
    \/ \E ks \in SeqIds : TextSequence_init(ks)
    \/ \E ks \in SeqIds, cp \in CodepointArgs : append_codepoint(ks, cp)
    \/ \E ks \in SeqIds, k \in Kerns : append_kerning(ks, k)
    \/ \E seq \in SequenceArgs : cmd_TJ(seq)
    \/ Text_cmd_Td
    \/ \E c \in UseCtx : render_text_obj(c)
    \/ Catch

SpecText == Init /\ [][NextText]_vars

\* TJ shows the units the sequence holds at the call, in the order they
\* were appended, and leaves the sequence as it is; any other argument is
\* refused.
ShowsUnitsAtCall ==
    \A seq \in SequenceArgs :
        cmd_TJ(seq) =>
            IF seq.kind = "TextSequence"
            THEN /\ text'.shown = Append(text.shown, objs[TheSequence].elems)
                 /\ objs' = objs /\ exc' = NoExc
            ELSE /\ exc' = "Argument must be a kerning sequence." /\ unwinding'
                 /\ text' = text /\ objs' = objs

\* An append adds its unit at the end of the sequence, also after the
\* sequence was shown, and changes nothing an earlier TJ shows.
AppendsAtEnd ==
    \A ks \in SeqIds :
        /\ \A cp \in CodepointArgs :
               append_codepoint(ks, cp) =>
                   /\ objs'[ks].elems =
                          Append(objs[ks].elems,
                                 Codepoint(IF cp.is_int THEN cp.int ELSE 86))
                   /\ text' = text /\ exc' = NoExc
        /\ \A k \in Kerns :
               append_kerning(ks, k) =>
                   /\ objs'[ks].elems = Append(objs[ks].elems, Kerning(k))
                   /\ text' = text /\ exc' = NoExc

\* Nothing but TJ adds to what the text object shows, and no step changes
\* what an earlier TJ shows.
ShownKept ==
    /\ Len(text'.shown) >= Len(text.shown) =>
           SubSeq(text'.shown, 1, Len(text.shown)) = text.shown
    /\ Len(text'.shown) < Len(text.shown) => text'.state = "none"

TextOpsHeld ==
    (\/ Text_cmd_Td \/ Text_cmd_EMC
     \/ \E as_with \in BOOLEAN : Text_cmd_BDC_builtin(as_with)
     \/ Text_del) =>
        dc' = dc /\ gen' = gen

\* The buffer c after the text object was inlined at its end.
Inlined(c) ==
    [dc EXCEPT ![c].ops = @ \o <<"BT">> \o text.ops \o <<"ET">>]

\* render_text_obj, and leaving the text block, append the operators of
\* the text object to the parent as one group, or fail and append nothing.
RenderedAsGroup ==
    /\ \A c \in MarkedCtx :
           render_text_obj(c) =>
               IF text.m = 0 THEN dc' = Inlined(c) /\ exc' = NoExc
               ELSE dc' = dc /\ exc' = "UnbalancedState"
    /\ Text_exit =>
           IF text.m = 0 THEN dc' = Inlined(text.dc) ELSE dc' = dc

\* A buffer receives text operators in no other way: whenever a step adds
\* BT or Td to a buffer, the step inlines the open text object.
OnlyWhenRendered ==
    \A c \in MarkedCtx :
        (/\ Len(dc'[c].ops) > Len(dc[c].ops)
         /\ \E i \in Len(dc[c].ops) + 1 .. Len(dc'[c].ops) :
                dc'[c].ops[i] \in {"BT", "Td", "ET"}) =>
            /\ text.state = "open" /\ text'.state = "rendered"
            /\ dc' = Inlined(c)

\* C22: operators issued on a Text object are held in the text object and
\* appear in the parent draw context's buffer only when render_text_obj is
\* called or the text with-block is left, as one contiguous group at that
\* position of the parent's operators; a Text object that is never
\* rendered contributes nothing.
C22_TextHeldUntilRendered ==
    /\ [][TextOpsHeld]_vars
    /\ [][RenderedAsGroup]_vars
    /\ [][OnlyWhenRendered]_vars

\* A page on which an operator was issued after the text operator, and
\* the text object was inlined behind it.
C22_Witness ==
    /\ \E c \in MarkedCtx : dc[c].ops = <<"BMC", "BT", "Td", "ET">>
    /\ text.state = "rendered"

(***************************************************************************)
(* SpecErr: operations of every family that can signal an error, on one    *)
(* page.                                                                   *)
(***************************************************************************)
ErrCtx == {"page1"}
ErrImages == {Handle("ImageId", 0), Handle("FontId", 0)}
ErrParents == {NoHandle, Handle("StructureItemId", 1)}

NextErr ==
    \/ \E c \in ErrCtx : page_draw_context(c)
    \/ \E c \in ErrCtx : cmd_Q(c)
    \/ \E c \in ErrCtx, w \in Widths : cmd_w(c, w)
    \/ \E c \in ErrCtx, as_with \in BOOLEAN : cmd_BDC(c, as_with)
    \/ \E c \in ErrCtx : cmd_EMC(c)
    \/ \E c \in ErrCtx : DrawContext_enter(c)
    \/ DrawContext_exit
    \/ \E c \in ErrCtx : add_page(c)
    \/ \E c \in ErrCtx, h \in ErrImages : draw_image(c, h)
    \/ \E p \in ErrParents : add_structure_item("StructureType", p, "made")
    \/ write
    \/ Catch

SpecErr == Init /\ [][NextErr]_vars

\* The committed state of the document: the page list, the registries,
\* the structure and outline trees, and the operators and the two stack
\* depths of every draw context.
Committed(g, d) ==
    [pages |-> g.pages, res |-> g.res, fonts |-> g.fonts, made |-> g.made,
     funcs |-> g.funcs, items |-> g.items, outlines |-> g.outlines,
     buffers |-> [c \in CtxIds |-> <<d[c].ops, d[c].q, d[c].m>>]]

\* A call that raises leaves the committed state as it was.  (The
\* TypeError of a with statement on the None that cmd_BDC returned is
\* raised by the statement after the call has returned.)
RaisingCallCommitsNothing ==
    (~unwinding /\ unwinding' /\ exc' # "TypeError") =>
        Committed(gen', dc') = Committed(gen, dc)

\* Leaving a page block whose add_page fails commits nothing either, also
\* when the body had raised.
FailingExitCommitsNothing ==
    (DrawContext_exit /\ exc' \in {"UnbalancedState", "DocumentConsumed"}
     /\ (unwinding => exc' # exc)) =>
        Committed(gen', dc') = Committed(gen, dc)

\* C23: every operation that signals an error leaves the document's
\* committed state as it was before the call: the page list, every
\* resource registry, the structure and outline trees, and every draw
\* context's operator buffer and stack depths are unchanged.
C23_ErrorsCommitNothing ==
    /\ [][RaisingCallCommitsNothing]_vars
    /\ [][FailingExitCommitsNothing]_vars

\* A page was added and a structure item registered; the last call, an
\* item under a parent that was never registered, was refused.
C23_Witness ==
    /\ Len(gen.pages) = 1 /\ Len(gen.items) = 1
    /\ exc = "UnknownParent" /\ unwinding

(***************************************************************************)
(* SpecIndep: a page block and a transparency group built inside it.       *)
(***************************************************************************)
IndepCtx == {"page1", "tgroup1"}
GroupArgs == {Handle("TransparencyGroupId", 0)}

NextIndep ==
    \/ \E c \in IndepCtx : page_draw_context(c)
    \/ \E c \in IndepCtx : TransparencyGroupDrawContext_init(c)
    \/ \E c \in IndepCtx : DrawContext_enter(c)
    \/ DrawContext_exit
    \/ \E c \in IndepCtx : cmd_q(c)
    \/ \E c \in IndepCtx : cmd_Q(c)
    \/ \E c \in IndepCtx : cmd_re(c)
    \/ \E c \in IndepCtx, as_with \in BOOLEAN : cmd_BMC(c, as_with)
    \/ MarkedContextManager_exit
    \/ \E c \in IndepCtx, h \in GroupArgs : cmd_Do(c, h)
    \/ \E c \in IndepCtx : add_transparency_group(c)
    \/ \E c \in IndepCtx : add_page(c)
    \/ Catch

SpecIndep == Init /\ [][NextIndep]_vars

\* An operation on context c changes no other context.
OthersUntouched(c) == \A o \in CtxIds \ {c} : dc'[o] = dc[o]

OneContextPerCall ==
    \A c \in IndepCtx :
        (\/ cmd_q(c) \/ cmd_Q(c) \/ cmd_re(c)
         \/ \E as_with \in BOOLEAN : cmd_BMC(c, as_with)
         \/ \E h \in GroupArgs : cmd_Do(c, h)
         \/ add_transparency_group(c) \/ add_page(c)) =>
            OthersUntouched(c)

\* Leaving a block changes the context of the block only.
OneContextPerExit ==
    /\ DrawContext_exit => OthersUntouched(Top.obj)
    /\ MarkedContextManager_exit => OthersUntouched(Top.obj)

\* Registering a group while a page block is open changes neither the
\* page of the block nor the page list, and the block stays open.
RegisteredBesideOpenPage ==
    \A c \in GroupCtx : \A p \in PageCtx :
        (HeldAs("page", p) /\ add_transparency_group(c)) =>
            /\ dc'[p] = dc[p] /\ gen'.pages = gen.pages /\ frames' = frames
            /\ (Balanced(dc[c]) /\ ~gen.consumed) =>
                   gen'.res["tgroup"] = Append(gen.res["tgroup"], dc[c].ops)

\* C24: draw contexts are independent buffers: an operation on one draw
\* context leaves the operators and both stack depths of every other
\* context unchanged, and registering one context while another is still
\* open (add_transparency_group inside an open page block) changes
\* neither the open context nor the page count.
C24_IndependentBuffers ==
    /\ [][OneContextPerCall]_vars
    /\ [][OneContextPerExit]_vars
    /\ [][RegisteredBesideOpenPage]_vars

\* Inside the page block, with an operator already on the page, a group
\* holding one operator was registered, and the page then used the group.
C24_Witness ==
    /\ HeldAs("page", "page1")
    /\ gen.res["tgroup"] = << <<"re">> >> /\ gen.pages = <<>>
    /\ dc["page1"].ops = <<"re", "Do group">>

(***************************************************************************)
(* SpecGen: a generator block whose body adds pages and may raise.         *)
(***************************************************************************)
GenCtx == {"page1"}

NextGen ==
    \/ Generator_enter
    \/ Generator_exit
    \/ \E c \in GenCtx : page_draw_context(c)
    \/ \E c \in GenCtx : cmd_re(c)
    \/ \E c \in GenCtx, w \in Widths : cmd_w(c, w)
    \/ \E c \in GenCtx : cmd_Q(c)
    \/ \E c \in GenCtx : DrawContext_enter(c)
    \/ DrawContext_exit
    \/ \E c \in GenCtx : add_page(c)
    \/ \E c \in GenCtx : DrawContextBase_del(c)
    \/ Catch

SpecGen == Init /\ [][NextGen]_vars

\* Leaving the generator block while an exception propagates changes
\* neither the document nor the file, and the same exception goes on.
EscapingExceptionSkipsWrite ==
    (Generator_exit /\ unwinding) =>
        /\ gen' = gen /\ file' = file
        /\ exc' = exc /\ unwinding'
        /\ frames' = Pop

\* The body never calls write itself here: the document is written by a
\* block exit without exception or not at all.
WrittenByCleanExitOnly ==
    (gen'.consumed # gen.consumed \/ file' # file) =>
        (Generator_exit /\ ~unwinding)

\* C25: if an exception escapes the body of a `with Generator(...)` block,
\* write() is not invoked for that block, the exception propagates
\* unchanged, and no output file is produced, even when pages had been
\* added.
C25_NoWriteOnException ==
    /\ [][EscapingExceptionSkipsWrite]_vars
    /\ [][WrittenByCleanExitOnly]_vars

\* A page was added, a later call in the body raised, and the block has
\* been left with that exception: the document is not consumed and there
\* is no file.
C25_Witness ==
    /\ frames = <<>> /\ unwinding /\ exc = "Negative line width."
    /\ Len(gen.pages) = 1 /\ dc["page1"].state = "open"
    /\ ~gen.consumed /\ file = NoFile

(***************************************************************************)
(* The exit of a page block (checked under Spec).                          *)
(***************************************************************************)
\* The exit calls add_page once, whether or not the body raised: a
\* balanced page is appended with the operators issued so far and the
\* exception of the body goes on; an unbalanced one is refused and that
\* error propagates.  Either way the generator reference is cleared.
ExitAddsPageOnce ==
    (DrawContext_exit /\ dc[Top.obj].generator # None) =>
        LET c == Top.obj
        IN /\ IF Balanced(dc[c]) /\ ~gen.consumed
              THEN /\ gen'.pages = Append(gen.pages, dc[c].ops)
                   /\ unwinding' = unwinding
                   /\ exc' = (IF unwinding THEN exc ELSE NoExc)
              ELSE /\ gen' = gen
                   /\ dc'[c].ops = dc[c].ops
                   /\ unwinding' /\ exc' \in {"UnbalancedState", "DocumentConsumed"}
           /\ dc'[c].generator = None
           /\ frames' = Pop

\* A context whose generator reference is cleared is not added by the
\* exit of a block.
ClearedIsNotAdded ==
    (DrawContext_exit /\ dc[Top.obj].generator = None) =>
        /\ gen' = gen /\ dc' = dc
        /\ unwinding' /\ exc' = "AttributeError"

\* C26: a page with-block calls add_page exactly once when it is left, on
\* every exit path including when the body raised, so a page whose body
\* failed part-way is still appended with the operators issued so far;
\* the context's generator reference is then cleared whether add_page
\* succeeded or failed, so the with protocol never adds the same context
\* twice.
C26_PageAddedOnEveryExit ==
    /\ [][ExitAddsPageOnce]_vars
    /\ [][ClearedIsNotAdded]_vars

\* The body issued w and then failed on a negative width; the block was
\* left with that exception and the page holding w was appended.
C26_Witness ==
    /\ gen.pages = << <<"w">> >>
    /\ dc["page1"].generator = None /\ frames = <<>>
    /\ unwinding /\ exc = "Negative line width."

\* A block on a context that an earlier block had failed to add was left:
\* nothing was added.
C26_WitnessCleared ==
    /\ gen.pages = <<>> /\ frames = <<>>
    /\ dc["page1"].generator = None /\ dc["page1"].state = "open"
    /\ unwinding /\ exc = "AttributeError"

(***************************************************************************)
(* SpecGstate: push_gstate with and without a with-block, on pages that    *)
(* are then registered.                                                    *)
(***************************************************************************)
NextGstate ==
    \/ \E c \in PageCtx : page_draw_context(c)
    \/ \E c \in PageCtx, as_with \in BOOLEAN : push_gstate(c, as_with)
    \/ StateContextManager_exit
    \/ \E c \in PageCtx, w \in Widths : cmd_w(c, w)
    \/ \E c \in PageCtx : add_page(c)
    \/ Catch

SpecGstate == Init /\ [][NextGstate]_vars

\* The call itself emits q and raises the depth, as a with statement or
\* not; only the with statement opens a block.
PushEmitsAtCall ==
    \A c \in PageCtx : \A as_with \in BOOLEAN :
        push_gstate(c, as_with) =>
            /\ dc'[c].ops = Append(dc[c].ops, "q")
            /\ dc'[c].q = dc[c].q + 1
            /\ frames' = (IF as_with THEN Append(frames, Token("state", c, dc[c].q))
                          ELSE frames)

\* Q is emitted by the exit of a block and by nothing else.
PopOnlyOnExit ==
    \A c \in PageCtx :
        (Len(dc'[c].ops) = Len(dc[c].ops) + 1 /\ dc'[c].ops[Len(dc'[c].ops)] = "Q") =>
            /\ frames # <<>> /\ Top = Token("state", c, Top.base)
            /\ frames' = Pop

\* The depth of a page is the number of its open blocks plus the number
\* of push_gstate() calls that opened none.
UnmatchedPushes(c) ==
    dc[c].q - Cardinality({i \in 1..Len(frames) :
                              frames[i].kind = "state" /\ frames[i].obj = c})

\* A page left above depth zero by such a call is refused.
UnmatchedPushBlocksPage ==
    \A c \in PageCtx :
        (add_page(c) /\ UnmatchedPushes(c) > 0) =>
            /\ exc' = "UnbalancedState" /\ unwinding'
            /\ gen' = gen /\ dc' = dc

\* C27: push_gstate() emits q at the moment it is called, in the
\* manager's constructor, not on entry to the with-block, and emits Q only
\* on block exit; a push_gstate() that is never used as a with-block
\* leaves the context one level deeper with no matching Q, and the context
\* can then not be registered.
C27_PushAtCall ==
    /\ [][PushEmitsAtCall]_vars
    /\ [][PopOnlyOnExit]_vars
    /\ [][UnmatchedPushBlocksPage]_vars
    /\ [](\A c \in PageCtx : Open(c) => UnmatchedPushes(c) >= 0)

\* push_gstate() was called without a with statement, a block was opened
\* and left after it, and add_page was refused: the page holds q q Q at
\* depth one.
C27_Witness ==
    /\ dc["page1"].ops = <<"q", "q", "Q">> /\ dc["page1"].q = 1
    /\ frames = <<>> /\ gen.pages = <<>>
    /\ exc = "UnbalancedState" /\ unwinding

(***************************************************************************)
(* SpecOrder: two pages, created and registered in any order, by add_page  *)
(* or by nested page blocks, and an outline whose destination names a page *)
(* by its index.                                                           *)
(***************************************************************************)
OrderIndices == {0, 1}

NextOrder ==
    \/ \E c \in PageCtx : page_draw_context(c)
    \/ \E c \in PageCtx : cmd_re(c)
    \/ \E c \in PageCtx : DrawContext_enter(c)
    \/ DrawContext_exit
    \/ \E c \in PageCtx : add_page(c)
    \/ \E d \in DestIds : Destination_init(d)
    \/ \E d \in DestIds, n \in OrderIndices : set_page_fit(d, n)
    \/ \E o \in DocOutl : Outline_init(o)
    \/ \E o \in DocOutl, d \in DestIds : set_destination(o, d)
    \/ \E o \in DocOutl : add_outline(o)
    \/ write

SpecOrder == Init /\ [][NextOrder]_vars

\* Creating a context, drawing on it and opening its block give it no
\* place among the pages.
CreationTakesNoIndex ==
    \A c \in PageCtx :
        (page_draw_context(c) \/ cmd_re(c) \/ DrawContext_enter(c)) =>
            gen'.pages = gen.pages

\* A context that is added becomes the page after the pages added so far,
\* whichever context was created first; of nested blocks the inner one is
\* left, and so added, first.
AddedAtEnd ==
    /\ \A c \in PageCtx :
           (add_page(c) /\ exc' = NoExc) =>
               gen'.pages = Append(gen.pages, dc[c].ops)
    /\ (DrawContext_exit /\ dc'[Top.obj].state = "added") =>
           /\ gen'.pages = Append(gen.pages, dc[Top.obj].ops)
           /\ \A i \in 1..Len(frames') : dc'[frames'[i].obj].state = "open"

\* The pages added keep their places.
PlacesKept ==
    /\ Len(gen'.pages) >= Len(gen.pages)
    /\ SubSeq(gen'.pages, 1, Len(gen.pages)) = gen.pages

\* The file has the pages in the order they were added, and a destination
\* set to index n is resolved to the page at place n + 1 of that order.
IndexCountsAddedPages ==
    (write /\ exc' = NoExc) =>
        /\ file'.pages = gen.pages
        /\ \A i \in 1..Len(gen.outlines) :
               gen.outlines[i].dest.set =>
                   /\ file'.outlines[i] = gen.outlines[i].dest.page + 1
                   /\ file'.outlines[i] \in 1..Len(file'.pages)

\* C28: page indices follow registration order, not creation order: page
\* i of the final document is the i-th context passed to add_page; with
\* nested or interleaved page blocks the inner block's page precedes the
\* outer block's page; and a Destination's page index counts pages in
\* that order.
C28_RegistrationOrder ==
    /\ [][CreationTakesNoIndex]_vars
    /\ [][AddedAtEnd]_vars
    /\ [][PlacesKept]_vars
    /\ [][IndexCountsAddedPages]_vars

\* Two page blocks were left, the one with re on its page first, and the
\* file was written: the page with re is the first page, and the outline's
\* destination, set to index 1, is resolved to the second, empty page.
C28_Witness ==
    /\ file.exists /\ file.pages = << <<"re">>, <<>> >>
    /\ file.outlines = <<2>>
    /\ \A c \in PageCtx : dc[c].generator = None /\ dc[c].state = "added"

(***************************************************************************)
(* SpecTextNew: text objects asked of contexts of every kind.              *)
(***************************************************************************)
TextNewCtx == {"page1", "form1", "pattern1", "tgroup1"}

NextTextNew ==
    \/ \E c \in TextNewCtx : page_draw_context(c)
    \/ \E c \in TextNewCtx : FormXObjectDrawContext_init(c)
    \/ \E c \in TextNewCtx : create_color_pattern_context(c)
    \/ \E c \in TextNewCtx : TransparencyGroupDrawContext_init(c)
    \/ \E c \in TextNewCtx : cmd_re(c)
    \/ \E c \in TextNewCtx, as_with \in BOOLEAN : text_new(c, as_with)
    \/ Text_cmd_Td
    \/ \E c \in TextNewCtx : render_text_obj(c)
    \/ Text_exit
    \/ Catch

SpecTextNew == Init /\ [][NextTextNew]_vars

\* A page context gives a text object of that page; a context of any
\* other kind raises, and no text object, context or block changes.
TextOnlyFromPage ==
    \A c \in TextNewCtx : \A as_with \in BOOLEAN :
        text_new(c, as_with) =>
            IF c \in PageCtx
            THEN /\ exc' = NoExc
                 /\ text' = [FreshText EXCEPT !.state = "open", !.dc = c]
            ELSE /\ exc' = "Argument must be a DrawingContext (preferably use its .text_new() method instead)."
                 /\ unwinding'
                 /\ text' = text /\ dc' = dc /\ gen' = gen /\ frames' = frames

\* No text object belongs to a context of another kind.
TextBelongsToPage ==
    text.state # "none" => text.dc \in PageCtx \cup {None}

\* C29: a Text object can be created only from a page DrawContext:
\* text_new() or Text(dc) on a tiling-pattern, form-xobject or
\* transparency-group context raises CapyPDFException before any native
\* text object is created and leaves that context unchanged.
C29_TextOnlyFromPage ==
    /\ [][TextOnlyFromPage]_vars
    /\ []TextBelongsToPage

\* A transparency group holding one operator was asked for a text object
\* and refused; the group is as it was and there is no text object.
C29_Witness ==
    /\ dc["tgroup1"].state = "open" /\ dc["tgroup1"].ops = <<"re">>
    /\ dc["page1"].state = "none"
    /\ text = FreshText
    /\ exc = "Argument must be a DrawingContext (preferably use its .text_new() method instead)."
    /\ unwinding

(***************************************************************************)
(* SpecTransition: page transitions and their setters.                     *)
(***************************************************************************)
NextTransition ==
    \/ \E tr \in TransIds : Transition_init(tr)
    \/ \E tr \in TransIds, B \in BOOLEAN : set_B(tr, B)
    \/ \E tr \in TransIds, S \in TransitionTypes : set_S(tr, S)
    \/ \E tr \in TransIds, d \in Durations : set_D(tr, d)
    \/ Catch

SpecTransition == Init /\ [][NextTransition]_vars

\* C30: Transition.set_B(b) changes only the transition's B field and
\* leaves its S (transition type) and every other field of the transition
\* unchanged.
C30_SetBChangesOnlyB ==
    [][\A tr \in TransIds : \A B \in BOOLEAN :
           set_B(tr, B) =>
               /\ objs'[tr].elems[1] = objs[tr].elems[1]
               /\ objs'[tr].elems[2] = objs[tr].elems[2]
               /\ objs'[tr].elems[3] = Value(int(B))]_vars

\* What set_B does: the transition type becomes int(B), that is Split for
\* False and Blinds for True, and B stays as it was.
SetBSetsS ==
    [][\A tr \in TransIds : \A B \in BOOLEAN :
           set_B(tr, B) =>
               /\ objs'[tr].elems[1] = Value(int(B))
               /\ objs'[tr].elems[2] = objs[tr].elems[2]
               /\ objs'[tr].elems[3] = objs[tr].elems[3]
               /\ exc' = NoExc]_vars

\* No transition ever has its B field set.
BNeverSet ==
    \A tr \in TransIds : objs[tr].live => objs[tr].elems[3] = Unset

====
